---- MODULE Spec2Model ----
(***************************************************************************)
(* A model of the LLM reasoning router: the quality detectors and checker  *)
(* (src/src/quality), the escalation handler (src/src/escalation) and the  *)
(* routing strategies (src/src/router).                                    *)
(*                                                                         *)
(* Texts are TLA+ strings; a character is a string of length one.  The     *)
(* regular expressions of the detectors are kept as data (a sequence of   *)
(* elements) and run by a backtracking matcher that tries alternatives in *)
(* the order Python's re module tries them.  Severities are exact          *)
(* rationals <<numerator, denominator>>.                                   *)
(***************************************************************************)
EXTENDS Integers, Sequences, FiniteSets, TLC

VARIABLES
    settings,           \* Settings: the configuration the services were built from
    pc,                 \* where the invocation of handle_with_escalation stands
    initial_model,      \* argument of handle_with_escalation
    complexity_score,   \* argument of handle_with_escalation
    attempt,            \* the loop variable of `for attempt in range(...)`
    current_model,      \* local of handle_with_escalation
    steps,              \* local: list[EscalationStep]
    responses,          \* local: list[str]
    models_used,        \* local: list[str]
    total_latency_ms,   \* local
    loop_prevented,     \* local
    final_response,     \* local: <<>> (None) or <<ChatResponse>>
    returned,           \* <<>> or <<[response, chain]>>: what the caller received
    raised,             \* <<>> or <<error>>: the exception that reached the caller
    generate_calls,     \* history: the model of every llm_client.generate call
    generate_results,   \* history: every ChatResponse the back-end returned
    assessments,        \* history: every QualityAssessment of the invocation
    backend_error,      \* history: <<>> or <<error>> the back-end raised
    combined,           \* <<>> or <<CombinedResponse>> of combine_responses on the chain
    strategy,           \* RoutingEngine.strategy: the strategy last asked
    analysis,           \* <<>> or <<ComplexityAnalysis>> last handed to decide
    decision,           \* <<>> or <<RoutingDecision>> last returned by decide
    quality_checker,    \* QualityChecker: min_response_length and quality_threshold
    checked,            \* <<>> or <<arguments>> of the last QualityChecker.check call
    assessment,         \* <<>> or <<QualityAssessment>> that call returned
    prompt_analyzer,    \* PromptAnalyzer: the five signal weights
    analyzed,           \* <<>> or <<prompt>> of the last PromptAnalyzer.analyze call
    analyze_returned,   \* <<>> or <<ComplexityAnalysis>> that call returned
    analyze_raised,     \* <<>> or <<error>> that call raised
    request_log,        \* <<>> or <<RequestLog>> last added to the session
    request,            \* <<>> or <<ChatCompletionRequest>> create_chat_completion serves
    endpoint_pc,        \* "idle", "escalation", "direct" (awaiting the back-end), "responded"
    model_to_use,       \* <<>> or <<model>>: the local of create_chat_completion
    http_response,      \* <<>> or <<response>> the client of the request receives
    log_error,          \* <<>> or <<error>> log_request raised in the request
    db_session,         \* the session of get_db_session: "closed", "open", "inactive", ...
    tasks               \* the invocations of handle_with_escalation running concurrently

(***************************************************************************)
(* Text primitives (Python str)                                            *)
(***************************************************************************)

CharAt(s, i) == SubSeq(s, i, i)

UpperCase == "ABCDEFGHIJKLMNOPQRSTUVWXYZ"

LowerCase == "abcdefghijklmnopqrstuvwxyz"

\* str.lower() of one character (ASCII letters; every other character is kept).
LowerChar(c) ==
    IF \E k \in 1..Len(UpperCase) : CharAt(UpperCase, k) = c
    THEN CharAt(LowerCase, CHOOSE k \in 1..Len(UpperCase) : CharAt(UpperCase, k) = c)
    ELSE c

\* The characters lo..hi of s in lower case (by halves, to keep the recursion
\* shallow).
RECURSIVE LowerRange(_, _, _)
LowerRange(s, lo, hi) ==
    IF lo > hi THEN ""
    ELSE IF lo = hi THEN LowerChar(CharAt(s, lo))
    ELSE LowerRange(s, lo, (lo + hi) \div 2)
         \o LowerRange(s, ((lo + hi) \div 2) + 1, hi)

\* str.lower()
Lower(s) == LowerRange(s, 1, Len(s))

\* The characters str.strip(), str.split() and the regex class \s treat as blank.
IsSpace(c) == c \in {" ", "\t", "\n", "\r", "\f"}

IsDigit(c) == c \in {"0", "1", "2", "3", "4", "5", "6", "7", "8", "9"}

Letters == {CharAt(LowerCase, k) : k \in 1..Len(LowerCase)}
             \cup {CharAt(UpperCase, k) : k \in 1..Len(UpperCase)}

\* The regex class \w (ASCII).
IsWord(c) == c \in Letters \/ IsDigit(c) \/ c = "_"

Least(S) == CHOOSE x \in S : \A y \in S : x <= y

Greatest(S) == CHOOSE x \in S : \A y \in S : y <= x

\* str.strip(): the text without its leading and trailing blanks.
Strip(s) ==
    LET Between(keep) ==
            IF keep = {} THEN "" ELSE SubSeq(s, Least(keep), Greatest(keep))
    IN  Between({i \in 1..Len(s) : ~IsSpace(CharAt(s, i))})

\* s[:n] of Python: the first n characters, or all of s when it is shorter.
Prefix(s, n) == IF Len(s) > n THEN SubSeq(s, 1, n) ELSE s

\* s[-n:] of Python: the last n characters, or all of s when it is shorter.
Suffix(s, n) == IF Len(s) > n THEN SubSeq(s, Len(s) - n + 1, Len(s)) ELSE s

\* Whether lit occurs in s starting at position p.
StartsAt(s, p, lit) ==
    /\ p + Len(lit) - 1 <= Len(s)
    /\ SubSeq(s, p, p + Len(lit) - 1) = lit

\* Python's `lit in s`.
Contains(s, lit) == \E p \in 1..(Len(s) + 1) : StartsAt(s, p, lit)

(***************************************************************************)
(* Regular expressions (Python re), as data.  A pattern is a sequence of   *)
(* elements: an ordered alternation of literals (a literal is an           *)
(* alternation of one; an optional group ends with the empty literal),    *)
(* a greedy bounded repetition of a character class, the anchor $, and a   *)
(* negative lookahead of a literal; further a lazy repetition of a class,  *)
(* the anchors \b and ^ (under MULTILINE), and a group, an ordered         *)
(* alternation of patterns.                                                *)
(***************************************************************************)

Lit(s) == [k |-> "alt", alts |-> <<s>>]

Alt(alts) == [k |-> "alt", alts |-> alts]

Opt(alts) == [k |-> "alt", alts |-> alts \o <<"">>]

\* cls{lo,hi}; hi = -1 stands for no upper limit (the * and + quantifiers).
Rep(cls, lo, hi) == [k |-> "rep", cls |-> cls, lo |-> lo, hi |-> hi]

EndOfText == [k |-> "end"]

NotFollowedBy(s) == [k |-> "nla", s |-> s]

\* cls{lo,}? : the shortest run first.
Lazy(cls, lo) == [k |-> "lazy", cls |-> cls, lo |-> lo]

\* \b
WordBoundary == [k |-> "wordb"]

\* ^ under re.MULTILINE
LineStart == [k |-> "bol"]

\* (?:A|B|...) where the alternatives are patterns; (?:A)? is Group(<<A, <<>>>>).
Group(alts) == [k |-> "group", alts |-> alts]

\* "any" is the dot (no flag DOTALL), "space" \s, "digit" \d, "notdot" [^.],
\* "all" [\s\S], "word" \w, "wordordot" [\w.], "notdollar" [^$], "blockstart"
\* [\s:{], "listmark" [.)], "letter" [a-z] under IGNORECASE, "arith"
\* [\+\-\*\/\^], "compare" [=<>]; "bullet" is [-*<U+2022>] and "mathsymbol"
\* the class of eleven non-ASCII symbols, both restricted to their ASCII
\* members; "notgrave" is every character but the grave accent U+0060, which
\* no text of this module holds (it is written <U+0060> in a pattern).
InClass(cls, c) ==
    CASE cls = "any" -> c # "\n"
      [] cls = "space" -> IsSpace(c)
      [] cls = "digit" -> IsDigit(c)
      [] cls = "notdot" -> c # "."
      [] cls = "all" -> TRUE
      [] cls = "word" -> IsWord(c)
      [] cls = "wordordot" -> IsWord(c) \/ c = "."
      [] cls = "notgrave" -> TRUE
      [] cls = "notdollar" -> c # "$"
      [] cls = "blockstart" -> IsSpace(c) \/ c \in {":", "{"}
      [] cls = "listmark" -> c \in {".", ")"}
      [] cls = "letter" -> c \in Letters
      [] cls = "arith" -> c \in {"+", "-", "*", "/", "^"}
      [] cls = "compare" -> c \in {"=", "<", ">"}
      [] cls = "bullet" -> c \in {"-", "*"}
      [] cls = "mathsymbol" -> FALSE

\* \b at p: exactly one of the characters before and at p is a word character.
AtWordBoundary(t, p) ==
    (p > 1 /\ IsWord(CharAt(t, p - 1))) # (p <= Len(t) /\ IsWord(CharAt(t, p)))

\* ^ under MULTILINE: at the start of the text or just after a newline.
AtLineStart(t, p) == p = 1 \/ CharAt(t, p - 1) = "\n"

\* $ without MULTILINE: at the end, or before a newline that ends the text.
AtEnd(t, p) == p = Len(t) + 1 \/ (p = Len(t) /\ CharAt(t, p) = "\n")

\* How many characters from p on are of class cls, counting at most hi.
RunLen(t, p, cls, hi) ==
    LET Upto(stop) == IF hi >= 0 /\ stop - p > hi THEN hi ELSE stop - p
    IN  Upto(Least({q \in p..(Len(t) + 1) :
                       q = Len(t) + 1 \/ ~InClass(cls, CharAt(t, q))}))

NoMatch == 0

\* The position after the match of pat[j..] at p that backtracking finds first,
\* or NoMatch.
RECURSIVE MatchFrom(_, _, _, _)
RECURSIVE TryAlts(_, _, _, _, _)
RECURSIVE TryGroup(_, _, _, _, _)
MatchFrom(pat, j, t, p) ==
    IF j > Len(pat) THEN p
    ELSE LET Element(e) ==
                 CASE e.k = "alt" -> TryAlts(pat, j, t, p, 1)
                   [] e.k = "rep" ->
                        \* greedy: the longest run first, then one character less, ...
                        LET Longest(fit) ==
                                IF fit = {} THEN NoMatch
                                ELSE MatchFrom(pat, j + 1, t, p + Greatest(fit))
                        IN  Longest({n \in e.lo..RunLen(t, p, e.cls, e.hi) :
                                        MatchFrom(pat, j + 1, t, p + n) # NoMatch})
                   [] e.k = "end" ->
                        IF AtEnd(t, p) THEN MatchFrom(pat, j + 1, t, p) ELSE NoMatch
                   [] e.k = "nla" ->
                        IF StartsAt(t, p, e.s) THEN NoMatch
                        ELSE MatchFrom(pat, j + 1, t, p)
                   [] e.k = "lazy" ->
                        LET Shortest(fit) ==
                                IF fit = {} THEN NoMatch
                                ELSE MatchFrom(pat, j + 1, t, p + Least(fit))
                        IN  Shortest({n \in e.lo..RunLen(t, p, e.cls, -1) :
                                         MatchFrom(pat, j + 1, t, p + n) # NoMatch})
                   [] e.k = "wordb" ->
                        IF AtWordBoundary(t, p) THEN MatchFrom(pat, j + 1, t, p)
                        ELSE NoMatch
                   [] e.k = "bol" ->
                        IF AtLineStart(t, p) THEN MatchFrom(pat, j + 1, t, p)
                        ELSE NoMatch
                   [] e.k = "group" -> TryGroup(pat, j, t, p, 1)
         IN  Element(pat[j])

\* The alternatives of the group pat[j], in order, each followed by pat[j+1..].
TryGroup(pat, j, t, p, a) ==
    IF a > Len(pat[j].alts) THEN NoMatch
    ELSE LET OrNext(rest) ==
                 IF rest # NoMatch THEN rest ELSE TryGroup(pat, j, t, p, a + 1)
         IN  OrNext(MatchFrom(pat[j].alts[a] \o SubSeq(pat, j + 1, Len(pat)), 1, t, p))

TryAlts(pat, j, t, p, a) ==
    IF a > Len(pat[j].alts) THEN NoMatch
    ELSE LET OrNext(rest) ==
                 IF rest # NoMatch THEN rest ELSE TryAlts(pat, j, t, p, a + 1)
             With(lit) ==
                 OrNext(IF StartsAt(t, p, lit)
                        THEN MatchFrom(pat, j + 1, t, p + Len(lit))
                        ELSE NoMatch)
         IN  With(pat[j].alts[a])

\* The start positions at or after `from` where pat matches.
MatchStarts(pat, t, from) ==
    {p \in from..(Len(t) + 1) : MatchFrom(pat, 1, t, p) # NoMatch}

\* re.search(pat, t): <<start, end>> of the leftmost match (end is the position
\* after it), or <<>> when there is none.
Search(pat, t) ==
    LET Span(b) == <<b, MatchFrom(pat, 1, t, b)>>
        Leftmost(starts) == IF starts = {} THEN <<>> ELSE Span(Least(starts))
    IN  Leftmost(MatchStarts(pat, t, 1))

\* re.finditer(pat, t): the matched texts, left to right, without overlap.
RECURSIVE FindIter(_, _, _)
FindIter(pat, t, from) ==
    LET Span(b, e) ==
            <<SubSeq(t, b, e - 1)>> \o FindIter(pat, t, IF e > b THEN e ELSE e + 1)
        Match(b) == Span(b, MatchFrom(pat, 1, t, b))
        Leftmost(starts) == IF starts = {} THEN <<>> ELSE Match(Least(starts))
    IN  Leftmost(MatchStarts(pat, t, from))

\* re.finditer(pat, t) as the spans <<start, end>> of the matches (end is the
\* position after the match), left to right, without overlap.
RECURSIVE FindSpans(_, _, _)
FindSpans(pat, t, from) ==
    LET Span(b, e) == <<<<b, e>>>> \o FindSpans(pat, t, IF e > b THEN e ELSE e + 1)
        Match(b) == Span(b, MatchFrom(pat, 1, t, b))
        Leftmost(starts) == IF starts = {} THEN <<>> ELSE Match(Least(starts))
    IN  Leftmost(MatchStarts(pat, t, from))

\* The pattern under re.IGNORECASE, to be run on the lower-cased text.
IgnoreCase(pat) ==
    [j \in 1..Len(pat) |->
        CASE pat[j].k = "alt" ->
               Alt([a \in 1..Len(pat[j].alts) |-> Lower(pat[j].alts[a])])
          [] pat[j].k = "nla" -> NotFollowedBy(Lower(pat[j].s))
          [] OTHER -> pat[j]]

\* The maximal runs of characters of t that are not in sep, left to right:
\* str.split() for blanks, and the non-empty pieces of re.split(r"[.!?]+", t).
Fields(t, sep) ==
    LET IsSep(i) == CharAt(t, i) \in sep
        EndOf(b) == Least({e \in b..Len(t) : e = Len(t) \/ IsSep(e + 1)})
        Field(b) == SubSeq(t, b, EndOf(b))
        InOrder(starts) ==
            [k \in 1..Cardinality(starts) |->
                Field(CHOOSE b \in starts : Cardinality({x \in starts : x < b}) = k - 1)]
    IN  InOrder({i \in 1..Len(t) : ~IsSep(i) /\ (i = 1 \/ IsSep(i - 1))})

\* " ".join(words[lo..hi]) with 1-based indices (by halves, to keep the
\* recursion shallow).
RECURSIVE JoinRange(_, _, _)
JoinRange(words, lo, hi) ==
    IF lo > hi THEN ""
    ELSE IF lo = hi THEN words[lo]
    ELSE JoinRange(words, lo, (lo + hi) \div 2) \o " "
         \o JoinRange(words, ((lo + hi) \div 2) + 1, hi)

(***************************************************************************)
(* Rationals, for the severities (floats in the code)                      *)
(***************************************************************************)

RECURSIVE Gcd(_, _)
Gcd(a, b) == IF b = 0 THEN a ELSE Gcd(b, a % b)

Rat(n, d) ==
    LET Reduced(g) == IF g = 0 THEN <<0, 1>> ELSE <<n \div g, d \div g>>
    IN  Reduced(Gcd(n, d))

RatAdd(x, y) == Rat(x[1] * y[2] + y[1] * x[2], x[2] * y[2])

RatLess(x, y) == x[1] * y[2] < y[1] * x[2]

RatMin(x, y) == IF RatLess(y, x) THEN y ELSE x

RatMax(x, y) == IF RatLess(x, y) THEN y ELSE x

RatMul(x, y) == Rat(x[1] * y[1], x[2] * y[2])

\* int(x): the integer part, cut towards zero.
RatTrunc(x) == IF x[1] >= 0 THEN x[1] \div x[2] ELSE -((-x[1]) \div x[2])

\* round(x, 2) in hundredths, for x >= 0: the nearest hundredth, a tie going
\* to the even one.
RoundHundredths(x) ==
    LET Nearest(whole, twice_rest) ==
            IF twice_rest > x[2] \/ (twice_rest = x[2] /\ whole % 2 = 1)
            THEN whole + 1 ELSE whole
    IN  Nearest((100 * x[1]) \div x[2], 2 * ((100 * x[1]) % x[2]))

(***************************************************************************)
(* Quality detectors (src/src/quality/detectors.py)                        *)
(***************************************************************************)

UNCERTAINTY_PATTERNS ==
    << <<Lit("i"), Opt(<<"'">>), Lit("m not "),
         Opt(<<"entirely ", "completely ", "fully ">>), Lit("sure")>>,
       <<Lit("i"), Opt(<<"'">>), Lit("m not certain")>>,
       <<Lit("i"), Opt(<<"'">>), Lit("m uncertain")>>,
       <<Lit("might be")>>,
       <<Lit("may be")>>,
       <<Lit("possibly")>>,
       <<Lit("perhaps")>>,
       <<Lit("i think"), NotFollowedBy(" that")>>,
       <<Lit("i believe"), NotFollowedBy(" that")>>,
       <<Lit("it seems like")>>,
       <<Lit("it appears "), Alt(<<"to be ", "that ">>)>>,
       <<Lit("could be")>>,
       <<Lit("probably")>>,
       <<Lit("not 100% sure")>>,
       <<Lit("hard to say")>>,
       <<Lit("difficult to determine")>>,
       <<Lit("i don"), Opt(<<"'">>), Lit("t "), Opt(<<"really ">>), Lit("know")>>,
       <<Alt(<<"this", "that">>), Lit(" is "), Opt(<<"just ">>),
         Opt(<<"a ", "my ">>), Lit("guess")>>,
       <<Lit("if i had to guess")>>,
       <<Lit("take this with a grain of salt")>> >>

\* The second pattern is three non-ASCII characters in the source (U+00E2,
\* U+20AC, U+00A6); they are written here in ASCII.
INCOMPLETE_PATTERNS ==
    << <<Lit("..."), Rep("space", 0, -1), EndOfText>>,
       <<Lit("<U+00E2><U+20AC><U+00A6>"), Rep("space", 0, -1), EndOfText>>,
       <<Alt(<<"etc", "and so on", "and more", "and others">>), Rep("space", 0, -1),
         Opt(<<".">>), Rep("space", 0, -1), EndOfText>>,
       <<Lit(":"), Rep("space", 0, -1), EndOfText>>,
       <<Rep("digit", 1, -1), Lit("."), Rep("space", 0, -1), EndOfText>>,
       <<Alt(<<"First", "1.">>), Rep("notdot", 0, -1), EndOfText>>,
       <<Lit("to be continued")>>,
       <<Lit("i'll continue")>>,
       <<Lit("let me know if you"), Rep("any", 0, 30), EndOfText>> >>

FAILED_REASONING_PATTERNS ==
    << <<Lit("i cannot "), Alt(<<"help", "assist", "provide", "answer">>)>>,
       <<Lit("i am unable to")>>,
       <<Lit("i"), Opt(<<"'">>), Lit("m unable to")>>,
       <<Lit("i don"), Opt(<<"'">>), Lit("t have "), Opt(<<"the ", "enough ">>),
         Alt(<<"ability", "capability", "information", "access">>)>>,
       <<Alt(<<"this", "that">>), Lit(" is "), Alt(<<"beyond", "outside">>), Lit(" "),
         Alt(<<"my", "the">>), Lit(" "), Alt(<<"capabilities", "scope", "knowledge">>)>>,
       <<Lit("i apologize"), Rep("any", 0, 50), Lit("cannot")>>,
       <<Lit("i"), Opt(<<"'">>), Lit("m sorry"), Rep("any", 0, 30),
         Alt(<<"cannot", "can't", "unable">>)>>,
       <<Lit("unfortunately"), Rep("any", 0, 30), Alt(<<"cannot", "can't", "unable">>)>>,
       <<Lit("i"), Opt(<<"'">>), Lit("m not able to")>> >>

REFUSAL_PATTERNS ==
    << <<Lit("i "), Alt(<<"cannot", "can't", "won't", "will not">>), Lit(" "),
         Alt(<<"help", "assist">>), Lit(" with "), Alt(<<"that", "this">>)>>,
       <<Alt(<<"this", "that">>), Lit(" "), Alt(<<"request", "question">>), Lit(" "),
         Alt(<<"is", "seems">>), Lit(" "), Alt(<<"inappropriate", "harmful">>)>>,
       <<Lit("i"), Opt(<<"'">>), Lit("m not "), Alt(<<"going to", "able to">>), Lit(" "),
         Alt(<<"help", "assist">>), Lit(" with")>>,
       <<Alt(<<"that's", "this is">>), Lit(" not something i can")>>,
       <<Lit("i have to decline")>>,
       <<Lit("i must refuse")>> >>

QualityIssue(issue_type, severity, evidence) ==
    [issue_type |-> issue_type, severity |-> severity, evidence |-> evidence]

\* The matches of patterns[i..] in t, pattern by pattern, each left to right.
RECURSIVE AllMatches(_, _, _)
AllMatches(patterns, t, i) ==
    IF i > Len(patterns) THEN <<>>
    ELSE FindIter(patterns[i], t, 1) \o AllMatches(patterns, t, i + 1)

\* The text matched by the first pattern of patterns[i..] that re.search finds
\* in t, as <<text>>, or <<>> when no pattern matches.
RECURSIVE FirstMatch(_, _, _)
FirstMatch(patterns, t, i) ==
    IF i > Len(patterns) THEN <<>>
    ELSE LET OrNext(m) ==
                 IF m # <<>> THEN <<SubSeq(t, m[1], m[2] - 1)>>
                 ELSE FirstMatch(patterns, t, i + 1)
         IN  OrNext(Search(patterns[i], t))

detect_uncertainty(text) ==
    LET Issues(matches_found) ==
            IF matches_found # <<>>
            THEN <<QualityIssue("uncertainty",
                                RatMin(Rat(8, 10), Rat(2 * Len(matches_found), 10)),
                                Prefix(matches_found[1], 50))>>
            ELSE <<>>
    IN  Issues(AllMatches(UNCERTAINTY_PATTERNS, Lower(text), 1))

detect_incomplete(text) ==
    IF \E i \in 1..Len(INCOMPLETE_PATTERNS) :
           Search(IgnoreCase(INCOMPLETE_PATTERNS[i]), Lower(text)) # <<>>
    THEN <<QualityIssue("incomplete", Rat(7, 10), Strip(Suffix(text, 100)))>>
    ELSE <<>>

detect_failed_reasoning(text) ==
    LET Issues(m) ==
            IF m # <<>>
            THEN <<QualityIssue("failed_reasoning", Rat(9, 10), Prefix(m[1], 50))>>
            ELSE <<>>
    IN  Issues(FirstMatch(FAILED_REASONING_PATTERNS, Lower(text), 1))

detect_refusal(text) ==
    LET Issues(m) ==
            IF m # <<>>
            THEN <<QualityIssue("refusal", Rat(1, 1), Prefix(m[1], 50))>>
            ELSE <<>>
    IN  Issues(FirstMatch(REFUSAL_PATTERNS, Lower(text), 1))

detect_too_short(text, min_length, prompt_complexity) ==
    LET Issues(text_stripped, expected_min) ==
            IF Len(text_stripped) < expected_min
            THEN <<QualityIssue(
                     "too_short",
                     RatMin(Rat(7, 10),
                            RatMax(Rat(3, 10),
                                   Rat(expected_min - Len(text_stripped), expected_min))),
                     IF text_stripped # "" THEN Prefix(text_stripped, 100)
                     ELSE "(empty)")>>
            ELSE <<>>
    IN  Issues(Strip(text), min_length + (prompt_complexity * 2))

\* The elements of a sequence as a set.
Range(seq) == {seq[i] : i \in 1..Len(seq)}

\* The sentences the repetition detector keeps: those of more than 10
\* characters once stripped (`if s.strip() and len(s.strip()) > 10`).
RECURSIVE LongSentences(_, _)
LongSentences(seq, i) ==
    IF i > Len(seq) THEN <<>>
    ELSE (IF Len(Strip(seq[i])) > 10 THEN <<seq[i]>> ELSE <<>>)
         \o LongSentences(seq, i + 1)

detect_repetition(text) ==
    LET Lowered(pieces) == [i \in 1..Len(pieces) |-> Lower(Strip(pieces[i]))]
        RatioIssues(repetition_ratio) ==
            IF RatLess(Rat(3, 10), repetition_ratio)
            THEN <<QualityIssue("repetition", RatMin(Rat(8, 10), repetition_ratio), "")>>
            ELSE <<>>
        \* range(len(words) - 6), shifted to 1-based indices
        Hits(words) ==
            {i \in 1..(Len(words) - 6) :
                Contains(JoinRange(words, i + 3, Len(words)), JoinRange(words, i, i + 2))}
        PhraseIssues(ratio_issues, words, hits) ==
            IF Len(words) > 10 /\ hits # {} /\ ratio_issues = <<>>
            THEN <<QualityIssue("repetition", Rat(5, 10),
                                JoinRange(words, Least(hits), Least(hits) + 2))>>
            ELSE ratio_issues
        WithWords(ratio_issues, words) == PhraseIssues(ratio_issues, words, Hits(words))
        Issues(sentences) ==
            IF Len(sentences) < 3 THEN <<>>
            ELSE WithWords(
                   RatioIssues(Rat(Len(sentences) - Cardinality(Range(sentences)),
                                   Len(sentences))),
                   Fields(Lower(text), {" ", "\t", "\n", "\r", "\f"}))
    IN  Issues(Lowered(LongSentences(Fields(text, {".", "!", "?"}), 1)))

(***************************************************************************)
(* Quality checker (src/src/quality/service.py)                            *)
(***************************************************************************)

RECURSIVE SumSeverity(_, _)
SumSeverity(issues, i) ==
    IF i > Len(issues) THEN Rat(0, 1)
    ELSE RatAdd(issues[i].severity, SumSeverity(issues, i + 1))

\* int(100 - total_penalty), not held at 0
calculate_score_unclamped(issues) ==
    IF issues = <<>> THEN 100
    ELSE LET Trunc(num, den) == IF num >= 0 THEN num \div den ELSE -((-num) \div den)
             Score(total) == Trunc(100 * total[2] - 25 * total[1], total[2])
         IN  Score(SumSeverity(issues, 1))

\* max(0, int(100 - total_penalty)), total_penalty = sum of severity * 25
calculate_score(issues) ==
    IF issues = <<>> THEN 100
    ELSE LET Floor(num, den) == IF num <= 0 THEN 0 ELSE num \div den
             Score(total) == Floor(100 * total[2] - 25 * total[1], total[2])
         IN  Score(SumSeverity(issues, 1))

\* QualityChecker.__init__: `quality_threshold or settings.quality_threshold`
\* (the argument is None, written <<>>, or an int v, written <<v>>; None and 0
\* both fall through to settings).
InitQualityThreshold(quality_threshold, settings_quality_threshold) ==
    IF quality_threshold = <<>> \/ quality_threshold[1] = 0
    THEN settings_quality_threshold
    ELSE quality_threshold[1]

QualityAssessment(quality_score, issues, should_escalate) ==
    [quality_score |-> quality_score, issues |-> issues,
     should_escalate |-> should_escalate]

\* check without its first branch: the detectors run on every text.
check_all_texts(response_text, prompt_complexity, min_response_length, quality_threshold) ==
    LET Assess(all_issues, quality_score) ==
            QualityAssessment(quality_score, all_issues,
                              quality_score < quality_threshold)
        Scored(all_issues) == Assess(all_issues, calculate_score(all_issues))
    IN  Scored(detect_uncertainty(response_text)
               \o detect_incomplete(response_text)
               \o detect_failed_reasoning(response_text)
               \o detect_refusal(response_text)
               \o detect_too_short(response_text, min_response_length,
                                   prompt_complexity)
               \o detect_repetition(response_text))

\* QualityChecker.check
check(response_text, prompt_complexity, min_response_length, quality_threshold) ==
    IF response_text = "" \/ Strip(response_text) = ""
    THEN QualityAssessment(0, <<QualityIssue("too_short", Rat(1, 1), "(empty response)")>>,
                           TRUE)
    ELSE LET Assess(all_issues, quality_score) ==
                 QualityAssessment(quality_score, all_issues,
                                   quality_score < quality_threshold)
             Scored(all_issues) == Assess(all_issues, calculate_score(all_issues))
         IN  Scored(detect_uncertainty(response_text)
                    \o detect_incomplete(response_text)
                    \o detect_failed_reasoning(response_text)
                    \o detect_refusal(response_text)
                    \o detect_too_short(response_text, min_response_length,
                                        prompt_complexity)
                    \o detect_repetition(response_text))

(***************************************************************************)
(* Prompt analyzer: constants (src/src/analyzer/constants.py), signal      *)
(* detection (src/src/analyzer/signals.py) and the scoring of              *)
(* src/src/analyzer/service.py.  Weights are exact rationals; a position   *)
(* is the 0-based index of Python, <<>> standing for None.  Python         *)
(* computes the score in binary floating point and truncates it, so where  *)
(* the exact total is a whole number of hundredths the float result can be *)
(* one less ("SELECT name FROM users": 0.29 exactly, 28 in Python).  The   *)
(* prompts and weights enumerated below are ones on which the exact and    *)
(* the floating-point computation give the same score and confidence.      *)
(***************************************************************************)

REASONING_KEYWORDS ==
    [high |-> <<"analyze", "analyse", "compare", "contrast", "evaluate", "assess",
                "design", "architect", "debug", "troubleshoot", "optimize",
                "refactor", "prove", "derive", "step by step", "step-by-step",
                "explain why", "reasoning", "trade-off", "tradeoff", "pros and cons",
                "advantages and disadvantages", "critically", "in-depth",
                "comprehensive">>,
     medium |-> <<"explain", "describe", "summarize", "how does", "how do", "what if",
                  "implement", "create", "build", "develop", "solve", "calculate",
                  "compute", "determine", "figure out", "work through",
                  "walk through", "help me understand", "elaborate", "clarify">>,
     low |-> <<"what is", "what are", "define", "list", "name", "when", "where", "who",
               "translate", "convert", "format", "give me", "tell me", "show me">>]

\* The order in which the dict REASONING_KEYWORDS is walked.
KeywordLevels == <<"high", "medium", "low">>

KEYWORD_WEIGHTS == [high |-> Rat(9, 10), medium |-> Rat(6, 10), low |-> Rat(3, 10)]

Grave == "<U+0060>"

CODE_PATTERNS ==
    << <<Lit(Grave \o Grave \o Grave), Lazy("all", 0), Lit(Grave \o Grave \o Grave)>>,
       <<Lit(Grave), Rep("notgrave", 1, -1), Lit(Grave)>>,
       <<Lit("def"), Rep("space", 1, -1), Rep("word", 1, -1), Rep("space", 0, -1),
         Lit("(")>>,
       <<Lit("function"), Rep("space", 1, -1), Rep("word", 1, -1), Rep("space", 0, -1),
         Lit("(")>>,
       <<Lit("class"), Rep("space", 1, -1), Rep("word", 1, -1), Rep("blockstart", 1, 1)>>,
       <<Lit("import"), Rep("space", 1, -1), Rep("wordordot", 1, -1)>>,
       <<Lit("from"), Rep("space", 1, -1), Rep("wordordot", 1, -1), Rep("space", 1, -1),
         Lit("import")>>,
       <<Lit("const"), Rep("space", 1, -1), Rep("word", 1, -1), Rep("space", 0, -1),
         Lit("=")>>,
       <<Lit("let"), Rep("space", 1, -1), Rep("word", 1, -1), Rep("space", 0, -1),
         Lit("=")>>,
       <<Lit("var"), Rep("space", 1, -1), Rep("word", 1, -1), Rep("space", 0, -1),
         Lit("=")>>,
       <<Lit("public"), Rep("space", 1, -1),
         Group(<< <<Lit("static"), Rep("space", 1, -1)>>, <<>> >>),
         Alt(<<"void", "int", "string", "bool">>)>>,
       <<Lit("async"), Rep("space", 1, -1), Alt(<<"def", "function">>)>>,
       <<Lit("=>"), Rep("space", 0, -1), Lit("{")>>,
       <<Lit("SELECT"), Rep("space", 1, -1), Rep("any", 1, -1), Rep("space", 1, -1),
         Lit("FROM")>>,
       <<Lit("CREATE"), Rep("space", 1, -1), Lit("TABLE")>> >>

MATH_PATTERNS ==
    << <<Lit("$$"), Lazy("all", 0), Lit("$$")>>,
       <<Lit("$"), Rep("notdollar", 1, -1), Lit("$")>>,
       <<Lit("\\frac{")>>,
       <<Lit("\\sum")>>,
       <<Lit("\\int")>>,
       <<Rep("digit", 1, -1), Rep("space", 0, -1), Rep("arith", 1, 1),
         Rep("space", 0, -1), Rep("digit", 1, -1)>>,
       <<Rep("digit", 1, -1), Rep("space", 0, -1), Rep("compare", 1, 1),
         Rep("space", 0, -1), Rep("digit", 1, -1)>>,
       <<Rep("mathsymbol", 1, 1)>>,
       <<WordBoundary,
         Alt(<<"integral", "derivative", "matrix", "vector", "equation", "formula">>),
         WordBoundary>>,
       <<WordBoundary,
         Alt(<<"polynomial", "factorial", "logarithm", "exponential", "trigonometric">>),
         WordBoundary>>,
       <<WordBoundary,
         Alt(<<"probability", "statistics", "regression", "correlation">>),
         WordBoundary>> >>

MULTIPART_PATTERNS ==
    << <<LineStart, Rep("space", 0, -1), Rep("digit", 1, -1), Rep("listmark", 1, 1),
         Rep("space", 1, -1)>>,
       <<LineStart, Rep("space", 0, -1), Rep("letter", 1, 1), Rep("listmark", 1, 1),
         Rep("space", 1, -1)>>,
       <<LineStart, Rep("space", 0, -1), Rep("bullet", 1, 1), Rep("space", 1, -1)>>,
       <<WordBoundary,
         Alt(<<"first", "firstly", "second", "secondly", "third", "thirdly", "finally">>),
         WordBoundary>>,
       <<WordBoundary, Alt(<<"additionally", "moreover", "furthermore", "also">>),
         WordBoundary>>,
       <<WordBoundary,
         Alt(<<"and also", "as well as", "in addition", "on top of that">>),
         WordBoundary>>,
       <<Lit("?"), Rep("space", 0, -1), Lit("\n"), Rep("any", 0, -1), Lit("?")>>,
       <<Lit("?"), Rep("space", 1, -1), Alt(<<"And", "Also", "What", "How", "Why", "Can">>)>> >>

SIGNAL_WEIGHTS ==
    [keyword |-> Rat(35, 100), code |-> Rat(25, 100), math |-> Rat(20, 100),
     multipart |-> Rat(10, 100), length |-> Rat(10, 100)]

LENGTH_THRESHOLDS ==
    [very_short |-> 50, short |-> 100, medium |-> 500, long |-> 1000, very_long |-> 2000]

DetectedSignal(signal_type, value, weight, position) ==
    [signal_type |-> signal_type, value |-> value, weight |-> weight,
     position |-> position]

\* One signal per span of a match; the value is made from the matched text.
SignalsOfSpans(spans, signal_type, weight, Value(_, _)) ==
    [k \in 1..Len(spans) |->
        DetectedSignal(signal_type, Value(spans[k][1], spans[k][2] - 1), weight,
                       <<spans[k][1] - 1>>)]

\* matched_text[:limit] + "..." when the match is longer than limit.
DisplayText(matched_text, limit) ==
    IF Len(matched_text) > limit THEN SubSeq(matched_text, 1, limit) \o "..."
    ELSE matched_text

\* The signals of the keywords keywords[i..] of one level, keyword by keyword.
RECURSIVE KeywordSignals(_, _, _, _)
KeywordSignals(text_lower, keywords, weight, i) ==
    IF i > Len(keywords) THEN <<>>
    ELSE LET Keyword(b, e) == keywords[i]
         IN  SignalsOfSpans(FindSpans(<<Lit(keywords[i])>>, text_lower, 1),
                            "reasoning_keyword", weight, Keyword)
             \o KeywordSignals(text_lower, keywords, weight, i + 1)

RECURSIVE LevelSignals(_, _)
LevelSignals(text_lower, l) ==
    IF l > Len(KeywordLevels) THEN <<>>
    ELSE KeywordSignals(text_lower, REASONING_KEYWORDS[KeywordLevels[l]],
                        KEYWORD_WEIGHTS[KeywordLevels[l]], 1)
         \o LevelSignals(text_lower, l + 1)

detect_reasoning_keywords(text) == LevelSignals(Lower(text), 1)

\* The loop of detect_code_blocks, detect_math_expressions and
\* detect_multipart_questions over patterns[i..], every pattern under
\* re.IGNORECASE.
RECURSIVE PatternSignals(_, _, _, _, _, _, _, _)
PatternSignals(patterns, text, text_lower, signal_type, weight, limit, stripped, i) ==
    IF i > Len(patterns) THEN <<>>
    ELSE LET Value(b, e) ==
                 DisplayText(IF stripped THEN Strip(SubSeq(text, b, e))
                             ELSE SubSeq(text, b, e), limit)
         IN  SignalsOfSpans(FindSpans(IgnoreCase(patterns[i]), text_lower, 1),
                            signal_type, weight, Value)
             \o PatternSignals(patterns, text, text_lower, signal_type, weight, limit,
                               stripped, i + 1)

detect_code_blocks(text) ==
    PatternSignals(CODE_PATTERNS, text, Lower(text), "code_block", Rat(7, 10), 50,
                   FALSE, 1)

detect_math_expressions(text) ==
    PatternSignals(MATH_PATTERNS, text, Lower(text), "math_expression", Rat(8, 10), 30,
                   FALSE, 1)

detect_multipart_questions(text) ==
    PatternSignals(MULTIPART_PATTERNS, text, Lower(text), "multipart_question",
                   Rat(5, 10), 30, TRUE, 1)

calculate_length_signal(text) ==
    LET Weight(length) ==
            IF length < LENGTH_THRESHOLDS.very_short THEN Rat(1, 10)
            ELSE IF length < LENGTH_THRESHOLDS.short THEN Rat(2, 10)
            ELSE IF length < LENGTH_THRESHOLDS.medium THEN Rat(4, 10)
            ELSE IF length < LENGTH_THRESHOLDS.long THEN Rat(6, 10)
            ELSE IF length < LENGTH_THRESHOLDS.very_long THEN Rat(8, 10)
            ELSE RatMin(Rat(9, 10),
                        RatAdd(Rat(8, 10),
                               Rat(length - LENGTH_THRESHOLDS.very_long, 10000)))
    IN  DetectedSignal("length", ToString(Len(text)) \o " characters",
                       Weight(Len(text)), <<>>)

\* deduplicate_signals: per key (type, value.lower()) the first signal of the
\* greatest weight, the keys in the order of their first signal.
deduplicate_signals(signals) ==
    LET Kept(keys) ==
            LET Best(f) ==
                    signals[Least({k \in f..Len(signals) :
                                     /\ keys[k] = keys[f]
                                     /\ \A j \in f..Len(signals) :
                                           keys[j] = keys[f] =>
                                              ~RatLess(signals[k].weight,
                                                       signals[j].weight)})]
                InOrder(firsts) ==
                    [n \in 1..Cardinality(firsts) |->
                        Best(CHOOSE f \in firsts :
                                Cardinality({x \in firsts : x < f}) = n - 1)]
            IN  InOrder({k \in 1..Len(signals) : \A j \in 1..(k - 1) : keys[j] # keys[k]})
    IN  Kept([k \in 1..Len(signals) |->
                 <<signals[k].signal_type, Lower(signals[k].value)>>])

\* 0.7 ** i
RECURSIVE Decay(_)
Decay(i) == IF i = 0 THEN Rat(1, 1) ELSE RatMul(Rat(7, 10), Decay(i - 1))

\* The loop of aggregate_signals over the weights sorted highest first: the
\* i-th highest of those not yet taken, for i < 5.
RECURSIVE DecayedSum(_, _, _)
DecayedSum(signals, taken, i) ==
    IF i >= 5 \/ Cardinality(taken) = Len(signals) THEN Rat(0, 1)
    ELSE LET Take(k) ==
                 RatAdd(RatMul(signals[k].weight, Decay(i)),
                        DecayedSum(signals, taken \cup {k}, i + 1))
         IN  Take(CHOOSE k \in (1..Len(signals)) \ taken :
                     \A j \in (1..Len(signals)) \ taken :
                        ~RatLess(signals[k].weight, signals[j].weight))

aggregate_signals_as_mean(signals) ==
    IF signals = <<>> THEN Rat(0, 1)
    ELSE LET Sum[k \in 0..Len(signals)] ==
                 IF k = 0 THEN Rat(0, 1) ELSE RatAdd(Sum[k - 1], signals[k].weight)
         IN  RatMul(Sum[Len(signals)], Rat(1, Len(signals)))

aggregate_signals(signals) ==
    IF signals = <<>> THEN Rat(0, 1)
    ELSE RatMin(Rat(1, 1), DecayedSum(signals, {}, 0))

\* PromptAnalyzer._calculate_score
analyzer_calculate_score(self, keyword_signals, code_signals, math_signals, multipart_signals, length_signal) ==
    LET Scaled(total) == RatTrunc(RatMin(Rat(100, 1), RatMul(total, Rat(100, 1))))
    IN  Scaled(RatAdd(RatMul(aggregate_signals(keyword_signals), self.weights.keyword),
               RatAdd(RatMul(aggregate_signals(code_signals), self.weights.code),
               RatAdd(RatMul(aggregate_signals(math_signals), self.weights.math),
               RatAdd(RatMul(aggregate_signals(multipart_signals),
                             self.weights.multipart),
                      RatMul(length_signal.weight, self.weights.length))))))

\* PromptAnalyzer._calculate_confidence, in hundredths; a score outside 0..100
\* gives an extremity above 1, and the sum is rounded only where it is not
\* negative.
calculate_confidence(signals, score) ==
    IF signals = <<>> THEN 50
    ELSE LET Sum[k \in 0..Len(signals)] ==
                 IF k = 0 THEN Rat(0, 1) ELSE RatAdd(Sum[k - 1], signals[k].weight)
             Distance(d) == IF d < 0 THEN -d ELSE d
         IN  RoundHundredths(
                 RatAdd(RatMul(RatMul(Sum[Len(signals)], Rat(1, Len(signals))),
                               Rat(4, 10)),
                 RatAdd(RatMul(RatMin(Rat(1, 1), Rat(Len(signals), 5)), Rat(3, 10)),
                        RatMul(Rat(Distance(score - 50), 50), Rat(3, 10)))))

score_to_level_without_medium(score) == IF score < 30 THEN "low" ELSE "high"

\* PromptAnalyzer._score_to_level
score_to_level(score) ==
    IF score < 30 THEN "low"
    ELSE IF score < 70 THEN "medium"
    ELSE "high"

\* ComplexityAnalysis(...) as pydantic builds it: the object, or a
\* ValidationError when a field is outside its range.
ValidatedComplexityAnalysis(score, confidence, level, detected_signals, prompt_length) ==
    IF score \in 0..100 /\ confidence \in 0..100 /\ prompt_length >= 0
    THEN [returned |-> <<[complexity_score |-> score, confidence |-> confidence,
                          level |-> level, detected_signals |-> detected_signals,
                          prompt_length |-> prompt_length]>>,
          raised |-> <<>>]
    ELSE [returned |-> <<>>, raised |-> <<"ValidationError">>]

\* PromptAnalyzer.__init__
PromptAnalyzer(keyword_weight, code_weight, math_weight, multipart_weight, length_weight) ==
    [weights |-> [keyword |-> keyword_weight, code |-> code_weight,
                  math |-> math_weight, multipart |-> multipart_weight,
                  length |-> length_weight]]

\* The first half of analyze: the four detectors, each list deduplicated, and
\* the length signal.
detect_all(prompt) ==
    [keyword |-> deduplicate_signals(detect_reasoning_keywords(prompt)),
     code |-> deduplicate_signals(detect_code_blocks(prompt)),
     math |-> deduplicate_signals(detect_math_expressions(prompt)),
     multipart |-> deduplicate_signals(detect_multipart_questions(prompt)),
     length |-> calculate_length_signal(prompt)]

\* analyze, given what its detectors find in the prompt.
analyze_detected(self, prompt, found) ==
    IF prompt = "" \/ Strip(prompt) = ""
    THEN ValidatedComplexityAnalysis(0, 100, "low", <<>>, 0)
    ELSE LET Result(all_signals, score) ==
                 ValidatedComplexityAnalysis(score,
                                             calculate_confidence(all_signals, score),
                                             score_to_level(score), all_signals,
                                             Len(prompt))
         IN  Result(found.keyword \o found.code \o found.math \o found.multipart
                      \o <<found.length>>,
                    analyzer_calculate_score(self, found.keyword, found.code,
                                             found.math, found.multipart,
                                             found.length))

\* PromptAnalyzer.analyze
analyze(self, prompt) == analyze_detected(self, prompt, detect_all(prompt))

(***************************************************************************)
(* The metrics service (src/src/metrics/service.py): log_request builds    *)
(* one RequestLog and adds it to the session.  A cost is an exact number   *)
(* of billionths of a dollar, a rate a number of thousandths of a dollar   *)
(* per million tokens (tokens / 1_000_000 * rate dollars is tokens * rate  *)
(* billionths).  The request id, the two timestamps and the routing        *)
(* reasoning text of the record are left out.                              *)
(***************************************************************************)

\* input_rate and output_rate of _calculate_cost for a flash model.
FlashRates == [input |-> 75, output |-> 300]

\* input_rate and output_rate of _calculate_cost for any other model.
ProRates == [input |-> 1250, output |-> 5000]

Usage(prompt_tokens, completion_tokens, total_tokens) ==
    [prompt_tokens |-> prompt_tokens, completion_tokens |-> completion_tokens,
     total_tokens |-> total_tokens]

\* The ChatResponse log_request reads: content, latency, usage, finish reason.
LoggedResponse(content, model, latency, usage, finish_reason) ==
    [content |-> content, model |-> model, latency_ms |-> latency, usage |-> usage,
     finish_reason |-> finish_reason]

\* MetricsService._calculate_cost
calculate_cost(response, model) ==
    LET Cost(rates) ==
            response.usage.prompt_tokens * rates.input
                + response.usage.completion_tokens * rates.output
        IsFlash(lowered) == Contains(lowered, "flash") /\ ~Contains(lowered, "pro")
    IN  IF IsFlash(Lower(model)) THEN Cost(FlashRates) ELSE Cost(ProRates)

\* The RequestLog of log_request; quality and escalation are <<>> for None.
RequestLog(prompt, logged_analysis, routing, response, quality, escalation, error) ==
    LET final_model ==
            IF escalation # <<>> THEN escalation[1].final_model
            ELSE routing.selected_model
        IsFast(lowered) == Contains(lowered, "flash") /\ ~Contains(lowered, "thinking")
    IN  [prompt_preview |-> Prefix(prompt, 500),
         prompt_length |-> Len(prompt),
         complexity_score |-> logged_analysis.complexity_score,
         complexity_confidence |-> logged_analysis.confidence,
         detected_signals |->
             [k \in 1..Len(logged_analysis.detected_signals) |->
                 logged_analysis.detected_signals[k].signal_type],
         initial_model |-> routing.selected_model,
         initial_tier |->
             IF IsFast(Lower(routing.selected_model)) THEN "fast" ELSE "complex",
         final_model |-> final_model,
         quality_score |-> IF quality # <<>> THEN <<quality[1].quality_score>> ELSE <<>>,
         was_escalated |-> escalation # <<>> /\ escalation[1].total_attempts > 1,
         escalation_depth |->
             IF escalation # <<>> THEN escalation[1].total_attempts - 1 ELSE 0,
         escalation_reason |->
             IF quality # <<>> /\ quality[1].should_escalate
             THEN quality[1].escalation_reason ELSE <<>>,
         latency_ms |-> response.latency_ms,
         total_latency_ms |->
             IF escalation # <<>> THEN escalation[1].total_latency_ms
             ELSE response.latency_ms,
         prompt_tokens |-> response.usage.prompt_tokens,
         completion_tokens |-> response.usage.completion_tokens,
         total_tokens |-> response.usage.total_tokens,
         estimated_cost |-> calculate_cost(response, final_model),
         response_preview |->
             IF response.content # "" THEN <<Prefix(response.content, 500)>> ELSE <<>>,
         finish_reason |-> response.finish_reason,
         error_occurred |-> error # <<>>,
         error_message |-> error]

(***************************************************************************)
(* Configuration (src/src/config.py) and the values the model draws from   *)
(***************************************************************************)

DefaultFastModel == "gemini-2.0-flash"
DefaultComplexModel == "gemini-2.0-flash-thinking-exp"
\* A model name that is neither of the configured two.
OtherModel == "gemini-1.5-pro"

DefaultQualityThreshold == 60
DefaultMinResponseLength == 50
DefaultComplexityThresholdLow == 30
DefaultComplexityThresholdHigh == 70
DefaultMaxEscalationDepth == 2
MinEscalationDepth == 1
MaxEscalationDepth == 5

\* The quality thresholds the handler is configured with.
QualityThresholds == {0, DefaultQualityThreshold, 80}

\* The prompt complexities handle_with_escalation is called with.
ComplexityScores == {0, 55, 100}

\* The models handle_with_escalation is started on.
InitialModels == {DefaultFastModel, DefaultComplexModel, OtherModel}

\* The texts the back-end answers with.
EmptyAnswer == ""
IDontKnow == "I don't know."
RefusalAnswer == "I cannot help with that."
GoodAnswer == "A binary search tree keeps every key in the left subtree smaller than the node and every key in the right subtree larger, so a lookup discards half of the remaining keys at every level it visits."
LongAnswer == "A binary search tree keeps every key in the left subtree smaller than the node and every key in the right subtree larger, so a lookup discards half of the remaining keys at every level it visits. Insertion walks the same path and adds a leaf."
ResponseTexts == {EmptyAnswer, IDontKnow, RefusalAnswer, GoodAnswer, LongAnswer}

\* The latencies the back-end reports, in milliseconds.
LatencyStep == 125
MaxLatencySteps == 2
Latencies == {LatencyStep * u : u \in 0..MaxLatencySteps}

\* The exceptions llm_client.generate can end with: the taxonomy of
\* src/src/llm/exceptions.py and the cancellation of the awaiting task.
LLMErrors ==
    {"LLMError", "LLMTimeoutError", "LLMRateLimitError", "LLMContentFilterError",
     "LLMAuthenticationError", "LLMModelNotFoundError", "LLMInvalidRequestError",
     "CancelledError"}

\* QualityChecker.check on every text the back-end can answer with, as the
\* checker the application builds (QualityChecker(settings)) computes it.
QualityTable ==
    [tt \in ResponseTexts, cc \in ComplexityScores, th \in QualityThresholds |->
        check(tt, cc, DefaultMinResponseLength, InitQualityThreshold(<<>>, th))]

(***************************************************************************)
(* The escalation handler (src/src/escalation/service.py)                  *)
(***************************************************************************)

ChatResponse(content, model, latency) ==
    [content |-> content, model |-> model, latency_ms |-> latency]

EscalationStep(model, preview, score, flag, latency) ==
    [model_used |-> model, response_preview |-> preview, quality_score |-> score,
     escalated |-> flag, latency_ms |-> latency]

\* response.content[:200] + "..." if len(response.content) > 200 else response.content
ResponsePreview(content) ==
    IF Len(content) > 200 THEN Prefix(content, 200) \o "..." ELSE content

\* The `should_escalate` local of the loop body.
StepEscalatedOnQualityAlone(poor, att, model, depth, complex) ==
    poor

StepEscalated(poor, att, model, depth, complex) ==
    poor /\ att < depth /\ model # complex

\* How one pass of the body of `for attempt in range(max_depth + 1)` ends: one
\* of the three breaks, the escalation to the complex model followed by the
\* next pass, or the escalation followed by the end of the range.
LoopExitRetryingWhilePoor(poor, att, model, depth, complex) ==
    IF ~poor THEN "acceptable" ELSE "escalate"

LoopExitIgnoringQuality(poor, att, model, depth, complex) ==
    IF att >= depth THEN "max_depth"
    ELSE IF model = complex THEN "at_best_model"
    ELSE "escalate"

LoopExitWithoutBestModelBreak(poor, att, model, depth, complex) ==
    IF ~poor THEN "acceptable"
    ELSE IF att >= depth THEN "max_depth"
    ELSE "escalate"

LoopExit(poor, att, model, depth, complex) ==
    IF ~poor THEN "acceptable"
    ELSE IF att >= depth THEN "max_depth"
    ELSE IF model = complex THEN "at_best_model"
    ELSE IF att + 1 >= depth + 1 THEN "range_exhausted"
    ELSE "escalate"

\* total_latency_ms += response.latency_ms
LatencyOverwritten(total, latency) ==
    latency

AddLatency(total, latency) ==
    total + latency

\* The EscalationChain record built after the loop.
EscalationChainOfFirstStep(chain_steps, model, last, latency, prevented) ==
    [steps |-> chain_steps,
     final_model |-> chain_steps[1].model_used,
     final_response |-> IF last # <<>> THEN last[1].content ELSE "",
     total_attempts |-> Len(chain_steps),
     total_latency_ms |-> latency,
     escalation_prevented_loop |-> prevented]

EscalationChain(chain_steps, model, last, latency, prevented) ==
    [steps |-> chain_steps,
     final_model |-> model,
     final_response |-> IF last # <<>> THEN last[1].content ELSE "",
     total_attempts |-> Len(chain_steps),
     total_latency_ms |-> latency,
     escalation_prevented_loop |-> prevented]

\* UseLatestStrategy.combine (supporting_context None is written <<>>)
UseLatestStrategy_combine(response_list, models) ==
    [primary_response |-> response_list[Len(response_list)],
     supporting_context |-> <<>>,
     models_used |-> models,
     combination_strategy |-> "use_latest"]

\* EscalationHandler.combine_responses with the default strategy
combine_responses(chain) ==
    UseLatestStrategy_combine(
        [k \in 1..Len(chain.steps) |-> chain.steps[k].response_preview],
        [k \in 1..Len(chain.steps) |-> chain.steps[k].model_used])

(***************************************************************************)
(* The state machine of one handler: construction, then invocations of     *)
(* handle_with_escalation, each suspended at `await llm_client.generate`.  *)
(***************************************************************************)

routing_vars == <<strategy, analysis, decision>>

handler_locals ==
    <<attempt, current_model, steps, responses, models_used, total_latency_ms,
      loop_prevented, final_response>>

handler_vars ==
    <<pc, initial_model, complexity_score, attempt, current_model, steps,
      responses, models_used, total_latency_ms, loop_prevented, final_response,
      returned, raised, generate_calls, generate_results, assessments,
      backend_error, combined>>

checker_vars == <<quality_checker, checked, assessment>>

analyzer_vars == <<prompt_analyzer, analyzed, analyze_returned, analyze_raised>>

metrics_vars == <<request_log>>

endpoint_vars ==
    <<request, endpoint_pc, model_to_use, http_response, log_error, db_session>>

concurrent_vars == <<tasks>>

vars ==
    <<settings, handler_vars, routing_vars, checker_vars, analyzer_vars, metrics_vars,
      endpoint_vars, concurrent_vars>>

Settings(fast, complex, low, high, threshold, depth) ==
    [fast_model |-> fast, complex_model |-> complex,
     complexity_threshold_low |-> low, complexity_threshold_high |-> high,
     quality_threshold |-> threshold, max_escalation_depth |-> depth]

\* No invocation of the handler has started.
HandlerIdle ==
    /\ pc = "idle"
    /\ initial_model = DefaultFastModel
    /\ complexity_score = 0
    /\ attempt = 0
    /\ current_model = DefaultFastModel
    /\ steps = <<>>
    /\ responses = <<>>
    /\ models_used = <<>>
    /\ total_latency_ms = 0
    /\ loop_prevented = FALSE
    /\ final_response = <<>>
    /\ returned = <<>>
    /\ raised = <<>>
    /\ generate_calls = <<>>
    /\ generate_results = <<>>
    /\ assessments = <<>>
    /\ backend_error = <<>>
    /\ combined = <<>>

\* QualityChecker.__init__
QualityChecker(conf, min_response_length, quality_threshold) ==
    [min_response_length |-> min_response_length,
     quality_threshold |-> InitQualityThreshold(quality_threshold,
                                                conf.quality_threshold)]

\* The checker the application builds, QualityChecker(settings), before any
\* check call of its own.
CheckerIdle ==
    /\ quality_checker = QualityChecker(settings, DefaultMinResponseLength, <<>>)
    /\ checked = <<>>
    /\ assessment = <<>>

\* The analyzer the application builds, PromptAnalyzer(), before any analyze
\* call.
AnalyzerIdle ==
    /\ prompt_analyzer = PromptAnalyzer(SIGNAL_WEIGHTS.keyword, SIGNAL_WEIGHTS.code,
                                        SIGNAL_WEIGHTS.math, SIGNAL_WEIGHTS.multipart,
                                        SIGNAL_WEIGHTS.length)
    /\ analyzed = <<>>
    /\ analyze_returned = <<>>
    /\ analyze_raised = <<>>

\* MetricsService.__init__ over a session nothing has been added to.
MetricsIdle == request_log = <<>>

\* No request has reached create_chat_completion.
EndpointIdle ==
    /\ request = <<>>
    /\ endpoint_pc = "idle"
    /\ model_to_use = <<>>
    /\ http_response = <<>>
    /\ log_error = <<>>
    /\ db_session = "closed"

\* No concurrent invocations of the handler are tracked.
ConcurrentIdle == tasks = <<>>

\* No routing decision has been asked for.
RouterIdle ==
    /\ strategy = "ThresholdRoutingStrategy"
    /\ analysis = <<>>
    /\ decision = <<>>

\* EscalationHandler.__init__ over a Settings object: the model names and the
\* complexity thresholds at their defaults, the quality threshold and the
\* escalation depth anywhere in the ranges the model draws from.
Init ==
    /\ \E threshold \in QualityThresholds, depth \in MinEscalationDepth..MaxEscalationDepth :
           settings = Settings(DefaultFastModel, DefaultComplexModel,
                               DefaultComplexityThresholdLow,
                               DefaultComplexityThresholdHigh, threshold, depth)
    /\ HandlerIdle
    /\ RouterIdle
    /\ CheckerIdle
    /\ AnalyzerIdle
    /\ MetricsIdle
    /\ EndpointIdle
    /\ ConcurrentIdle

\* The start of handle_with_escalation(initial_model=first, complexity_score=cs):
\* the locals are initialised and the body runs up to its first
\* `await llm_client.generate(model=current_model)`.
StartInvocation(first, cs) ==
    /\ initial_model' = first
    /\ complexity_score' = cs
    /\ current_model' = first
    /\ generate_calls' = <<first>>
    /\ steps' = <<>>
    /\ responses' = <<>>
    /\ models_used' = <<>>
    /\ total_latency_ms' = 0
    /\ loop_prevented' = FALSE
    /\ final_response' = <<>>
    /\ attempt' = 0
    /\ pc' = "generate"
    /\ returned' = <<>>
    /\ raised' = <<>>
    /\ generate_results' = <<>>
    /\ assessments' = <<>>
    /\ backend_error' = <<>>
    /\ combined' = <<>>

\* handle_with_escalation is called and runs up to its first
\* `await llm_client.generate(model=current_model)`.
handle_with_escalation ==
    /\ pc \in {"idle", "returned", "raised"}
    /\ \E first \in InitialModels, cs \in ComplexityScores : StartInvocation(first, cs)
    /\ UNCHANGED <<settings, routing_vars, checker_vars, analyzer_vars, metrics_vars,
                   endpoint_vars, concurrent_vars>>

\* The awaited generate call returns a ChatResponse: the rest of the loop
\* body runs, and then either the next generate call is awaited or the chain
\* is built and returned.
ReplyArrives(content, latency, quality) ==
    LET response == ChatResponse(content, current_model, latency)
        max_depth == settings.max_escalation_depth
        escalate_flag == StepEscalated(quality.should_escalate, attempt,
                                       current_model, max_depth,
                                       settings.complex_model)
        step == EscalationStep(current_model, ResponsePreview(content),
                               quality.quality_score, escalate_flag, latency)
        exit == LoopExit(quality.should_escalate, attempt, current_model,
                         max_depth, settings.complex_model)
        next_model == IF exit \in {"escalate", "range_exhausted"}
                      THEN settings.complex_model
                      ELSE current_model
        next_prevented == IF exit = "max_depth" THEN TRUE ELSE loop_prevented
        next_latency == AddLatency(total_latency_ms, latency)
        goes_on == exit = "escalate"
    IN  /\ responses' = Append(responses, content)
        /\ models_used' = Append(models_used, current_model)
        /\ total_latency_ms' = next_latency
        /\ final_response' = <<response>>
        /\ steps' = Append(steps, step)
        /\ current_model' = next_model
        /\ loop_prevented' = next_prevented
        /\ generate_results' = Append(generate_results, response)
        /\ assessments' = Append(assessments, quality)
        /\ IF goes_on
           THEN /\ attempt' = attempt + 1
                /\ generate_calls' = Append(generate_calls, next_model)
                /\ pc' = "generate"
                /\ returned' = <<>>
           ELSE /\ attempt' = attempt
                /\ generate_calls' = generate_calls
                /\ pc' = "returned"
                /\ returned' =
                       <<[response |-> response,
                          chain |-> EscalationChain(Append(steps, step), next_model,
                                                    <<response>>, next_latency,
                                                    next_prevented)]>>

\* The reply of the back-end to the awaited call, any text at any latency.
GenerateReturns ==
    /\ pc = "generate"
    /\ \E content \in ResponseTexts, latency \in Latencies :
          ReplyArrives(content, latency,
                       QualityTable[content, complexity_score, settings.quality_threshold])
    /\ UNCHANGED <<settings, initial_model, complexity_score, raised, backend_error,
                   combined, routing_vars, checker_vars, analyzer_vars, metrics_vars,
                   endpoint_vars, concurrent_vars>>

\* The awaited generate call raises: nothing in handle_with_escalation
\* catches it, so it leaves the coroutine as it is and reaches the caller.
GenerateRaisesSwallowed ==
    /\ pc = "generate"
    /\ \E kind \in LLMErrors :
          backend_error' = <<[type |-> kind, model |-> current_model]>>
    /\ pc' = "returned"
    /\ returned' =
           <<[response |-> final_response,
              chain |-> EscalationChain(steps, current_model, final_response,
                                        total_latency_ms, loop_prevented)]>>
    /\ UNCHANGED <<settings, initial_model, complexity_score, handler_locals, raised,
                   generate_calls, generate_results, assessments, combined,
                   routing_vars, checker_vars, analyzer_vars, metrics_vars,
                   endpoint_vars, concurrent_vars>>

GenerateRaises ==
    /\ pc = "generate"
    /\ \E kind \in LLMErrors :
          /\ backend_error' = <<[type |-> kind, model |-> current_model]>>
          /\ raised' = <<[type |-> kind, model |-> current_model]>>
    /\ pc' = "raised"
    /\ UNCHANGED <<settings, initial_model, complexity_score, handler_locals, returned,
                   generate_calls, generate_results, assessments, combined,
                   routing_vars, checker_vars, analyzer_vars, metrics_vars,
                   endpoint_vars, concurrent_vars>>

\* EscalationHandler.combine_responses, called with the chain an invocation
\* returned.
EscalationHandler_combine_responses ==
    /\ pc = "returned"
    /\ returned # <<>>
    /\ combined' = <<combine_responses(returned[1].chain)>>
    /\ UNCHANGED <<settings, pc, initial_model, complexity_score, handler_locals,
                   returned, raised, generate_calls, generate_results, assessments,
                   backend_error, routing_vars, checker_vars, analyzer_vars,
                   metrics_vars,
                   endpoint_vars, concurrent_vars>>

Next ==
    \/ handle_with_escalation
    \/ GenerateReturns
    \/ GenerateRaises
    \/ EscalationHandler_combine_responses

Spec == Init /\ [][Next]_vars

(***************************************************************************)
(* Routing strategies (src/src/router/strategies.py) and the routing       *)
(* engine (src/src/router/service.py).  A confidence is written in         *)
(* hundredths: 0.6 is 60.                                                  *)
(***************************************************************************)

FAST == "fast"
COMPLEX == "complex"

ComplexityAnalysis(score, confidence) ==
    [complexity_score |-> score, confidence |-> confidence]

RoutingDecision(model, tier, score, confidence, needs_check) ==
    [selected_model |-> model, tier |-> tier, complexity_score |-> score,
     confidence |-> confidence, requires_quality_check |-> needs_check]

DefaultConfidenceThreshold == 60

ThresholdRoutingStrategy(low, high) ==
    [name |-> "ThresholdRoutingStrategy", low_threshold |-> low,
     high_threshold |-> high]

ConfidenceAwareRoutingStrategy(low, high, conf) ==
    [name |-> "ConfidenceAwareRoutingStrategy", low_threshold |-> low,
     high_threshold |-> high, confidence_threshold |-> conf,
     fallback |-> ThresholdRoutingStrategy(low, high)]

AlwaysFastStrategy == [name |-> "AlwaysFastStrategy"]

AlwaysComplexStrategy == [name |-> "AlwaysComplexStrategy"]

ThresholdCheckingEveryDecision(self, an, fast, complex) ==
    IF an.complexity_score >= self.high_threshold
    THEN RoutingDecision(complex, COMPLEX, an.complexity_score, an.confidence, TRUE)
    ELSE IF an.complexity_score < self.low_threshold
    THEN RoutingDecision(fast, FAST, an.complexity_score, an.confidence, FALSE)
    ELSE RoutingDecision(fast, FAST, an.complexity_score, an.confidence, TRUE)

ThresholdRoutingStrategy_decide(self, an, fast, complex) ==
    IF an.complexity_score >= self.high_threshold
    THEN RoutingDecision(complex, COMPLEX, an.complexity_score, an.confidence, FALSE)
    ELSE IF an.complexity_score < self.low_threshold
    THEN RoutingDecision(fast, FAST, an.complexity_score, an.confidence, FALSE)
    ELSE RoutingDecision(fast, FAST, an.complexity_score, an.confidence, TRUE)

ConfidenceAwareOnScoreAlone(self, an, fast, complex) ==
    IF /\ self.low_threshold <= an.complexity_score
       /\ an.complexity_score < self.high_threshold
    THEN RoutingDecision(complex, COMPLEX, an.complexity_score, an.confidence, FALSE)
    ELSE ThresholdRoutingStrategy_decide(self.fallback, an, fast, complex)

ConfidenceAwareRoutingStrategy_decide(self, an, fast, complex) ==
    IF /\ an.confidence < self.confidence_threshold
       /\ self.low_threshold <= an.complexity_score
       /\ an.complexity_score < self.high_threshold
    THEN RoutingDecision(complex, COMPLEX, an.complexity_score, an.confidence, FALSE)
    ELSE ThresholdRoutingStrategy_decide(self.fallback, an, fast, complex)

AlwaysFastStrategy_decide(self, an, fast, complex) ==
    RoutingDecision(fast, FAST, an.complexity_score, an.confidence, TRUE)

AlwaysComplexStrategy_decide(self, an, fast, complex) ==
    RoutingDecision(complex, COMPLEX, an.complexity_score, an.confidence, FALSE)

\* self.strategy.decide(...): the decide of the strategy's class.
decide(self, an, fast, complex) ==
    CASE self.name = "ThresholdRoutingStrategy" ->
           ThresholdRoutingStrategy_decide(self, an, fast, complex)
      [] self.name = "ConfidenceAwareRoutingStrategy" ->
           ConfidenceAwareRoutingStrategy_decide(self, an, fast, complex)
      [] self.name = "AlwaysFastStrategy" ->
           AlwaysFastStrategy_decide(self, an, fast, complex)
      [] self.name = "AlwaysComplexStrategy" ->
           AlwaysComplexStrategy_decide(self, an, fast, complex)

\* The scores and thresholds the routing model draws from: the ends of 0..100,
\* the default thresholds and their neighbours, and a value between them.
BoundaryScores == {0, 1, 29, 30, 31, 50, 69, 70, 71, 99, 100}

\* Confidences, in hundredths.
Confidences == {30, DefaultConfidenceThreshold, 90}

\* The (fast_model, complex_model) pairs of the Settings: two names, or one
\* name given twice (Settings holds two independent strings).
ConfiguredModels ==
    {<<DefaultFastModel, DefaultComplexModel>>, <<DefaultFastModel, DefaultFastModel>>}

\* The confidence thresholds a ConfidenceAwareRoutingStrategy is built with,
\* in hundredths: the default and the two ends of the confidence range.
ConfidenceThresholds == {0, DefaultConfidenceThreshold, 100}

\* The strategies built over the thresholds of Settings.
StrategiesOf(conf) ==
    {ThresholdRoutingStrategy(conf.complexity_threshold_low,
                              conf.complexity_threshold_high),
     AlwaysFastStrategy,
     AlwaysComplexStrategy}
    \cup {ConfidenceAwareRoutingStrategy(conf.complexity_threshold_low,
                                         conf.complexity_threshold_high, ct) :
             ct \in ConfidenceThresholds}

\* RoutingEngine.__init__ over any Settings the validation accepts: each
\* threshold on its own in 0..100, the model names any two strings.
InitRouting ==
    /\ \E names \in ConfiguredModels, low \in BoundaryScores, high \in BoundaryScores :
          settings = Settings(names[1], names[2], low, high, DefaultQualityThreshold,
                              DefaultMaxEscalationDepth)
    /\ strategy = ThresholdRoutingStrategy(settings.complexity_threshold_low,
                                           settings.complexity_threshold_high)
    /\ analysis = <<>>
    /\ decision = <<>>
    /\ HandlerIdle
    /\ CheckerIdle
    /\ AnalyzerIdle
    /\ MetricsIdle
    /\ EndpointIdle
    /\ ConcurrentIdle

\* RoutingEngine.set_strategy
set_strategy ==
    /\ \E new \in StrategiesOf(settings) : strategy' = new
    /\ UNCHANGED <<settings, analysis, decision, handler_vars, checker_vars, analyzer_vars, metrics_vars,
                   endpoint_vars, concurrent_vars>>

\* RoutingEngine.route on a prompt the analyzer gives any analysis for.
route ==
    /\ \E score \in BoundaryScores, confidence \in Confidences :
          /\ analysis' = <<ComplexityAnalysis(score, confidence)>>
          /\ decision' = <<decide(strategy, ComplexityAnalysis(score, confidence),
                                  settings.fast_model, settings.complex_model)>>
    /\ UNCHANGED <<settings, strategy, handler_vars, checker_vars, analyzer_vars, metrics_vars,
                   endpoint_vars, concurrent_vars>>

NextRouting ==
    \/ set_strategy
    \/ route

SpecRouting == InitRouting /\ [][NextRouting]_vars

(***************************************************************************)
(* The quality checker on its own (src/src/quality/service.py): a checker  *)
(* built over any Settings and any explicit threshold, asked about any of  *)
(* a catalogue of response texts.                                          *)
(***************************************************************************)

\* The quality thresholds of Settings (0..100): the two ends and the default.
SettingsQualityThresholds == {0, DefaultQualityThreshold, 100}

\* The quality_threshold argument of QualityChecker.__init__: None, 0 or a
\* positive threshold.
ThresholdArguments == {<<>>, <<0>>, <<85>>}

\* The prompt complexities check is called with (50 is the default argument).
PromptComplexities == {0, 50, 100}

\* The response texts check is called with.
BlankAnswer == "   "
BlankLinesAnswer == " \n\t "
HedgedAnswer == "I'm not sure, but maybe it's 42. Possibly. Hard to say."
ShortAnswer == "uhh, maybe"
PlainAnswer == "This is a test response with clear and confident information."
RepeatedAnswer == "The cat sat here. The cat sat here. The cat sat here."
RepeatedPhraseAnswer == "one two three four. one two three five. six seven eight nine ten."
UnfinishedAnswer == "First we mix the flour and then we bake it for an hour"
ColonAnswer == "Here are the steps:\n"
ApologyAnswer == "I think that it is fine. I think so. I'm sorry, but i really can't do it..."
HopelessAnswer == "Perhaps, possibly, probably it could be; I cannot help with that..."
CheckedTexts ==
    {EmptyAnswer, BlankAnswer, BlankLinesAnswer, HedgedAnswer, IDontKnow,
     RefusalAnswer, ShortAnswer, PlainAnswer, RepeatedAnswer, RepeatedPhraseAnswer,
     UnfinishedAnswer, ColonAnswer, ApologyAnswer, HopelessAnswer}

\* The checkers QualityChecker.__init__ builds over these Settings and
\* threshold arguments.
QualityCheckers ==
    {QualityChecker([quality_threshold |-> threshold], DefaultMinResponseLength,
                    argument) :
        threshold \in SettingsQualityThresholds, argument \in ThresholdArguments}

\* QualityChecker.check of every such checker on every text of the catalogue.
CheckTable ==
    [self \in QualityCheckers, tt \in CheckedTexts, cc \in PromptComplexities |->
        check(tt, cc, self.min_response_length, self.quality_threshold)]

\* QualityChecker.__init__ over any Settings and any threshold argument.
InitQuality ==
    /\ \E threshold \in SettingsQualityThresholds :
          settings = Settings(DefaultFastModel, DefaultComplexModel,
                              DefaultComplexityThresholdLow,
                              DefaultComplexityThresholdHigh, threshold,
                              DefaultMaxEscalationDepth)
    /\ \E argument \in ThresholdArguments :
          quality_checker = QualityChecker(settings, DefaultMinResponseLength, argument)
    /\ checked = <<>>
    /\ assessment = <<>>
    /\ HandlerIdle
    /\ RouterIdle
    /\ AnalyzerIdle
    /\ MetricsIdle
    /\ EndpointIdle
    /\ ConcurrentIdle

\* QualityChecker.check
QualityChecker_check ==
    /\ \E text \in CheckedTexts, complexity \in PromptComplexities :
          /\ checked' = <<[response_text |-> text, prompt_complexity |-> complexity]>>
          /\ assessment' = <<CheckTable[quality_checker, text, complexity]>>
    /\ UNCHANGED <<settings, quality_checker, handler_vars, routing_vars, analyzer_vars, metrics_vars,
                   endpoint_vars, concurrent_vars>>

NextQuality == QualityChecker_check

SpecQuality == InitQuality /\ [][NextQuality]_vars

(***************************************************************************)
(* The prompt analyzer on its own (src/src/analyzer/service.py): an        *)
(* analyzer built with any of a few sets of weights, asked about any of a  *)
(* catalogue of prompts.                                                   *)
(***************************************************************************)

\* The prompts analyze is called with.
EmptyPrompt == ""
BlankPrompt == "   "
GreetingPrompt == "hi"
CompareStepByStepPrompt == "Analyze and compare Python with Java step by step"
ExplainStepByStepPrompt == "Explain step by step how to implement a binary search tree"
MatrixPrompt == "matrix"
MatrixWhoPrompt == "matrixwho"
WhoPrompt == "who"
WhatIsPrompt == "What is Python?"
NumberedPrompt == "1. What is Python? 2. How does it work? 3. Why use it?"
FunctionPrompt == "def foo(x): return x"
QueryPrompt == "SELECT id FROM users"
SumPrompt == "2 + 2 = 4"
MixedPrompt == "First, analyze def f(x) and solve 2+2"
RepeatPrompt == "Debug debug DEBUG"
TwoQuestionsPrompt == "Why?\nAnd how? Also compare"
LowKeywordsPrompt == "name who when where list"
AnalyzedPrompts ==
    {EmptyPrompt, BlankPrompt, GreetingPrompt, CompareStepByStepPrompt,
     ExplainStepByStepPrompt, MatrixPrompt, MatrixWhoPrompt, WhoPrompt, WhatIsPrompt,
     NumberedPrompt, FunctionPrompt, QueryPrompt, SumPrompt, MixedPrompt,
     RepeatPrompt, TwoQuestionsPrompt, LowKeywordsPrompt}

\* What the detectors of analyze find in every prompt of the catalogue.
DetectedTable == [pp \in AnalyzedPrompts |-> detect_all(pp)]

DefaultAnalyzer ==
    PromptAnalyzer(SIGNAL_WEIGHTS.keyword, SIGNAL_WEIGHTS.code, SIGNAL_WEIGHTS.math,
                   SIGNAL_WEIGHTS.multipart, SIGNAL_WEIGHTS.length)

\* The analyzers PromptAnalyzer.__init__ builds: the default weights, and one
\* weight overridden by a float the constructor accepts (any float: the
\* constructor checks nothing).
PromptAnalyzers ==
    {DefaultAnalyzer}
    \cup {[DefaultAnalyzer EXCEPT !.weights.keyword = w] : w \in {Rat(-1, 1), Rat(5, 1)}}
    \cup {[DefaultAnalyzer EXCEPT !.weights.code = w] : w \in {Rat(0, 1), Rat(1, 1)}}
    \cup {[DefaultAnalyzer EXCEPT !.weights.math = w] : w \in {Rat(1, 2)}}
    \cup {[DefaultAnalyzer EXCEPT !.weights.multipart = w] : w \in {Rat(1, 1)}}
    \cup {[DefaultAnalyzer EXCEPT !.weights.length = w] : w \in {Rat(-33, 100)}}

\* PromptAnalyzer.__init__
InitAnalyzer ==
    /\ settings = Settings(DefaultFastModel, DefaultComplexModel,
                           DefaultComplexityThresholdLow,
                           DefaultComplexityThresholdHigh, DefaultQualityThreshold,
                           DefaultMaxEscalationDepth)
    /\ prompt_analyzer \in PromptAnalyzers
    /\ analyzed = <<>>
    /\ analyze_returned = <<>>
    /\ analyze_raised = <<>>
    /\ HandlerIdle
    /\ RouterIdle
    /\ CheckerIdle
    /\ MetricsIdle
    /\ EndpointIdle
    /\ ConcurrentIdle

\* PromptAnalyzer.analyze
PromptAnalyzer_analyze ==
    /\ \E prompt \in AnalyzedPrompts :
         LET Outcome(result) ==
                 /\ analyze_returned' = result.returned
                 /\ analyze_raised' = result.raised
         IN  /\ analyzed' = <<prompt>>
             /\ Outcome(analyze_detected(prompt_analyzer, prompt, DetectedTable[prompt]))
    /\ UNCHANGED <<settings, prompt_analyzer, handler_vars, routing_vars, checker_vars,
                   metrics_vars,
                   endpoint_vars, concurrent_vars>>

NextAnalyzer == PromptAnalyzer_analyze

SpecAnalyzer == InitAnalyzer /\ [][NextAnalyzer]_vars

(***************************************************************************)
(* The state machine of the metrics service: log_request called with the   *)
(* analysis, routing decision, final response, quality assessment and      *)
(* escalation chain of a request.                                          *)
(***************************************************************************)

\* Model names a deployment can configure as fast_model or complex_model.
MetricModels ==
    {DefaultFastModel, DefaultComplexModel, "gemini-1.5-pro", "Gemini-1.5-Flash",
     "gemini-flash-pro-preview", "GEMINI-2.0-FLASH-THINKING-EXP", "gpt-4o"}

\* Token counts of a response's usage.
TokenCounts == {0, 1500}

\* Prompts whose requests are logged, each with the analysis of the default
\* analyzer.
LoggedPrompts == {MixedPrompt}

LoggedAnalyses ==
    [pp \in LoggedPrompts |->
        analyze_detected(DefaultAnalyzer, pp, DetectedTable[pp]).returned[1]]

\* The quality argument: None or a poor assessment.
LoggedQualities ==
    {<<>>,
     <<[quality_score |-> 45, should_escalate |-> TRUE,
        escalation_reason |-> <<"Quality score 45 below threshold 60">>]>>}

\* The escalation argument: None, a chain of one attempt on the selected
\* model, or a chain of two attempts ending on the complex model.
LoggedEscalations(selected_model, complex_model) ==
    {<<>>,
     <<[total_attempts |-> 1, final_model |-> selected_model,
        total_latency_ms |-> LatencyStep]>>,
     <<[total_attempts |-> 2, final_model |-> complex_model,
        total_latency_ms |-> 2 * LatencyStep]>>}

\* MetricsService.__init__
InitMetrics ==
    /\ settings = Settings(DefaultFastModel, DefaultComplexModel,
                           DefaultComplexityThresholdLow,
                           DefaultComplexityThresholdHigh, DefaultQualityThreshold,
                           DefaultMaxEscalationDepth)
    /\ request_log = <<>>
    /\ EndpointIdle
    /\ ConcurrentIdle
    /\ HandlerIdle
    /\ RouterIdle
    /\ CheckerIdle
    /\ AnalyzerIdle

\* MetricsService.log_request, with repository.create_request_log
MetricsService_log_request ==
    /\ \E prompt \in LoggedPrompts, selected_model \in MetricModels,
          prompt_tokens \in TokenCounts, completion_tokens \in TokenCounts,
          quality \in LoggedQualities :
          \E escalation \in LoggedEscalations(selected_model, settings.complex_model) :
             request_log' =
                 <<RequestLog(prompt, LoggedAnalyses[prompt],
                              [selected_model |-> selected_model],
                              LoggedResponse("Python is a programming language.",
                                             IF escalation # <<>>
                                             THEN escalation[1].final_model
                                             ELSE selected_model,
                                             LatencyStep,
                                             Usage(prompt_tokens, completion_tokens,
                                                   prompt_tokens + completion_tokens),
                                             "stop"),
                              quality, escalation, <<>>)>>
    /\ UNCHANGED <<settings, handler_vars, routing_vars, checker_vars, analyzer_vars,
                   endpoint_vars, concurrent_vars>>

NextMetrics == MetricsService_log_request

SpecMetrics == InitMetrics /\ [][NextMetrics]_vars

(***************************************************************************)
(* Properties of the escalation handler, checked under Spec                *)
(***************************************************************************)

\* The chain the caller received (only where returned # <<>>).
ReturnedChain == returned[1].chain

\* The ChatResponse the caller received (only where returned # <<>>).
ReturnedResponse == returned[1].response

RECURSIVE SumOfLatencies(_, _)
SumOfLatencies(chain_steps, first) ==
    IF first > Len(chain_steps) THEN 0
    ELSE chain_steps[first].latency_ms + SumOfLatencies(chain_steps, first + 1)

\* C1: whatever the back-end answers and whatever model the invocation starts
\* on, for every max_escalation_depth in 1..5 the back-end is called at most
\* max_escalation_depth + 1 times during an invocation, and a returned chain
\* has at least one and at most max_escalation_depth + 1 steps.
C1_EscalationBound ==
    /\ Len(generate_calls) <= settings.max_escalation_depth + 1
    /\ returned # <<>> =>
         /\ 1 <= Len(ReturnedChain.steps)
         /\ Len(ReturnedChain.steps) <= settings.max_escalation_depth + 1

\* C1 witness: a chain is returned whose length is exactly the bound
\* max_escalation_depth + 1, after as many back-end calls.
C1_BoundAttained ==
    /\ returned # <<>>
    /\ Len(ReturnedChain.steps) = settings.max_escalation_depth + 1
    /\ Len(generate_calls) = settings.max_escalation_depth + 1

\* C2: in every returned chain, final_model is the model_used of the last
\* step, which is also the model of the last back-end call: the loop is never
\* left with current_model upgraded and no attempt made on it.
C2_ChainConsistency ==
    returned # <<>> =>
        /\ ReturnedChain.final_model =
               ReturnedChain.steps[Len(ReturnedChain.steps)].model_used
        /\ ReturnedChain.final_model = generate_calls[Len(generate_calls)]

\* C2 witness: a returned chain whose run escalated, so that its final model
\* differs from the model of its first step.
C2_EscalatedChain ==
    /\ returned # <<>>
    /\ Len(ReturnedChain.steps) = 2
    /\ ReturnedChain.steps[1].model_used # ReturnedChain.final_model
    /\ ReturnedChain.final_model = settings.complex_model

\* C3: in every returned chain, the escalated flag of the step of attempt
\* k - 1 is (the assessment says escalate, and k - 1 < max_escalation_depth,
\* and the step's model is not the complex model); every step but the last has
\* escalated = TRUE and the last has escalated = FALSE.
C3_EscalatedFlag ==
    returned # <<>> =>
        \A at \in 1..Len(ReturnedChain.steps) :
            /\ ReturnedChain.steps[at].escalated =
                   (/\ assessments[at].should_escalate
                    /\ at - 1 < settings.max_escalation_depth
                    /\ ReturnedChain.steps[at].model_used # settings.complex_model)
            /\ at < Len(ReturnedChain.steps) => ReturnedChain.steps[at].escalated
            /\ at = Len(ReturnedChain.steps) => ~ReturnedChain.steps[at].escalated

\* C3 witness: a returned chain of two steps whose last answer was assessed as
\* poor as well: the last flag is FALSE only because no upgrade is left.
C3_PoorLastStep ==
    /\ returned # <<>>
    /\ Len(ReturnedChain.steps) = 2
    /\ assessments[2].should_escalate
    /\ ReturnedChain.steps[1].escalated
    /\ ~ReturnedChain.steps[2].escalated

\* C4: once the back-end call of an attempt has raised, the invocation has
\* ended with that very error at the caller, nothing was returned (no
\* response, no chain), the failed attempt has no step (the steps are those of
\* the earlier calls only), and the failed call is the last call made.
C4_ErrorPropagates ==
    backend_error # <<>> =>
        /\ pc = "raised"
        /\ raised = backend_error
        /\ returned = <<>>
        /\ Len(steps) = Len(generate_calls) - 1
        /\ Len(generate_results) = Len(generate_calls) - 1

\* C4 witness: the task is cancelled during the second attempt, after the
\* first attempt succeeded and was recorded as a step.
C4_RaisedAfterAStep ==
    /\ backend_error # <<>>
    /\ backend_error[1].type = "CancelledError"
    /\ Len(steps) = 1
    /\ Len(generate_calls) = 2

\* C5: in every returned chain, total_attempts is the number of steps and
\* total_latency_ms is the sum of the steps' latency_ms.
C5_ChainTotals ==
    returned # <<>> =>
        /\ ReturnedChain.total_attempts = Len(ReturnedChain.steps)
        /\ ReturnedChain.total_latency_ms = SumOfLatencies(ReturnedChain.steps, 1)

\* C5 witness: a returned chain of two steps with two different positive
\* latencies.
C5_TwoLatencies ==
    /\ returned # <<>>
    /\ Len(ReturnedChain.steps) = 2
    /\ ReturnedChain.steps[1].latency_ms > 0
    /\ ReturnedChain.steps[2].latency_ms > ReturnedChain.steps[1].latency_ms

\* C6: an attempt assessed as acceptable (should_escalate = FALSE) is the last
\* back-end call of the invocation, which has returned; the ChatResponse
\* returned is the last one the back-end gave, and the chain's final_response
\* is its content.
C6_StopsAtAcceptable ==
    /\ \A at \in 1..Len(assessments) :
          ~assessments[at].should_escalate =>
              /\ at = Len(generate_calls)
              /\ pc = "returned"
    /\ returned # <<>> =>
          /\ ReturnedResponse = generate_results[Len(generate_results)]
          /\ ReturnedChain.final_response =
                 generate_results[Len(generate_results)].content

\* C6 witness: the first answer was poor, the second was acceptable, and the
\* second is what the caller received.
C6_AcceptableSecondAnswer ==
    /\ returned # <<>>
    /\ Len(assessments) = 2
    /\ assessments[1].should_escalate
    /\ ~assessments[2].should_escalate
    /\ ReturnedResponse.content = GoodAnswer
    /\ generate_results[1].content # GoodAnswer

AlwaysPoorAtDepthTwo ==
    /\ returned # <<>>
    /\ settings.max_escalation_depth = 2
    /\ initial_model # settings.complex_model
    /\ \A at \in 1..Len(assessments) : assessments[at].should_escalate

\* C7: with max_escalation_depth = 2, an initial model other than the complex
\* model and every answer assessed as poor, the invocation makes exactly two
\* calls, on the initial model and then on the complex model; the chain has
\* two steps, final_model is the complex model and escalation_prevented_loop
\* is FALSE.
C7_TwoAttemptsWhenAlwaysPoor ==
    AlwaysPoorAtDepthTwo =>
        /\ generate_calls = <<initial_model, settings.complex_model>>
        /\ Len(ReturnedChain.steps) = 2
        /\ ReturnedChain.final_model = settings.complex_model
        /\ ~ReturnedChain.escalation_prevented_loop

\* C7 witness: such an invocation has returned, started on the fast model.
C7_AlwaysPoorReturned ==
    /\ AlwaysPoorAtDepthTwo
    /\ initial_model = settings.fast_model
    /\ Len(generate_results) = 2

\* The back-end of the scenario: "I don't know." on the fast model, an
\* issue-free answer on the complex model.
IDontKnowOnFast ==
    \A at \in 1..Len(generate_results) :
        generate_results[at].content =
            (IF generate_calls[at] = settings.fast_model THEN IDontKnow ELSE GoodAnswer)

\* C8: with quality_threshold 60 and minimum response length 50, an invocation
\* started on the fast model with complexity 55 against a back-end that
\* answers "I don't know." on the fast model and an issue-free answer on the
\* complex model returns a chain of exactly two steps whose final_model is the
\* complex model, so that total_attempts > 1.
C8_IDontKnowEscalates ==
    (/\ returned # <<>>
     /\ settings.quality_threshold = DefaultQualityThreshold
     /\ initial_model = settings.fast_model
     /\ complexity_score = 55
     /\ IDontKnowOnFast) =>
        /\ Len(ReturnedChain.steps) = 2
        /\ ReturnedChain.final_model = settings.complex_model
        /\ ReturnedChain.total_attempts > 1

(***************************************************************************)
(* Properties of the routing strategies, checked under SpecRouting         *)
(***************************************************************************)

\* C9: whatever the strategy, the analysis and the configured model names, the
\* decision's tier is fast if and only if its selected_model is the configured
\* fast model.
C9_TierIffFastModel ==
    decision # <<>> =>
        (decision[1].tier = FAST <=> decision[1].selected_model = settings.fast_model)

\* C10: for every score and every pair of thresholds, each anywhere in 0..100,
\* the Threshold strategy decides the complex model without quality check when
\* score >= high, the fast model without quality check when score < low, and
\* the fast model with quality check in every other case.
C10_ThresholdCases ==
    (/\ decision # <<>>
     /\ strategy.name = "ThresholdRoutingStrategy"
     /\ settings.fast_model # settings.complex_model) =>
        /\ analysis[1].complexity_score >= strategy.high_threshold =>
              /\ decision[1].selected_model = settings.complex_model
              /\ ~decision[1].requires_quality_check
        /\ analysis[1].complexity_score < strategy.low_threshold =>
              /\ decision[1].selected_model = settings.fast_model
              /\ ~decision[1].requires_quality_check
        /\ (/\ ~(analysis[1].complexity_score >= strategy.high_threshold)
            /\ ~(analysis[1].complexity_score < strategy.low_threshold)) =>
              /\ decision[1].selected_model = settings.fast_model
              /\ decision[1].requires_quality_check

\* The fields of a decision that a strategy chooses; the rest is copied from
\* the analysis.
Choice(d) == <<d.selected_model, d.tier, d.requires_quality_check>>

\* Both conditions of the conservative branch: low confidence and a score in
\* [low, high).
LowConfidenceBorderline ==
    /\ analysis[1].confidence < strategy.confidence_threshold
    /\ strategy.low_threshold <= analysis[1].complexity_score
    /\ analysis[1].complexity_score < strategy.high_threshold

\* The decision on record is the one the strategy in place gives for the
\* analysis on record (a later set_strategy leaves the old decision behind).
DecidedByStrategy ==
    /\ decision # <<>>
    /\ decision[1] = decide(strategy, analysis[1], settings.fast_model,
                            settings.complex_model)

\* C11: whenever the decision on record is the one a ConfidenceAware strategy
\* gives, it is the complex model without quality check when the confidence is
\* below the strategy's confidence threshold and the score lies in [low, high);
\* in every other case it has the model, tier and quality-check flag that a
\* Threshold strategy with the same low and high gives for the same analysis.
C11_ConfidenceAwareRefinesThreshold ==
    (/\ DecidedByStrategy
     /\ strategy.name = "ConfidenceAwareRoutingStrategy") =>
        IF LowConfidenceBorderline
        THEN Choice(decision[1]) = <<settings.complex_model, COMPLEX, FALSE>>
        ELSE Choice(decision[1]) =
               Choice(ThresholdRoutingStrategy_decide(
                        ThresholdRoutingStrategy(strategy.low_threshold,
                                                 strategy.high_threshold),
                        analysis[1], settings.fast_model, settings.complex_model))

\* A confident analysis with a borderline score, decided by a ConfidenceAware
\* strategy as the Threshold strategy would: fast model with quality check.
C11_ConfidentBorderline ==
    /\ DecidedByStrategy
    /\ strategy.name = "ConfidenceAwareRoutingStrategy"
    /\ analysis[1].confidence >= strategy.confidence_threshold
    /\ strategy.low_threshold <= analysis[1].complexity_score
    /\ analysis[1].complexity_score < strategy.high_threshold
    /\ settings.fast_model # settings.complex_model
    /\ Choice(decision[1]) = <<settings.fast_model, FAST, TRUE>>

(***************************************************************************)
(* Properties of the quality checker, checked under SpecQuality            *)
(***************************************************************************)

\* C12: for every response text, empty and whitespace-only ones included,
\* every prompt complexity and every quality threshold in 0..100, the
\* assessment that check returns has should_escalate = (quality_score <
\* quality threshold).
C12_EscalateIffBelowThreshold ==
    assessment # <<>> =>
        (assessment[1].should_escalate
            <=> assessment[1].quality_score < quality_checker.quality_threshold)

\* The texts of the catalogue that are empty or hold white space only.
BlankTexts == {EmptyAnswer, BlankAnswer, BlankLinesAnswer}

\* C13: check of the empty text and of any whitespace-only text returns
\* should_escalate = TRUE, quality_score 0 and exactly one issue, of type
\* too_short and severity 1, whatever the prompt complexity and the
\* checker's threshold; the issue is the shortcut's own ("(empty response)"),
\* not one a detector makes.
C13_EmptyResponseEscalates ==
    (/\ checked # <<>>
     /\ checked[1].response_text \in BlankTexts) =>
        /\ assessment[1].should_escalate
        /\ assessment[1].quality_score = 0
        /\ Len(assessment[1].issues) = 1
        /\ assessment[1].issues[1].issue_type = "too_short"
        /\ assessment[1].issues[1].severity = Rat(1, 1)
        /\ assessment[1].issues[1].evidence = "(empty response)"

\* A whitespace-only text checked at the highest complexity by a checker
\* whose threshold is 0, where no score is below the threshold.
C13_BlankAtThresholdZero ==
    /\ checked # <<>>
    /\ checked[1].response_text = BlankLinesAnswer
    /\ checked[1].prompt_complexity = 100
    /\ quality_checker.quality_threshold = 0
    /\ assessment[1].should_escalate

\* C14: check of the hedged answer at prompt complexity 50, by a checker with
\* the default threshold 60 and the default minimum length 50, reports at
\* least one uncertainty issue and should_escalate = TRUE.
C14_HedgedAnswerEscalates ==
    (/\ checked = <<[response_text |-> HedgedAnswer, prompt_complexity |-> 50]>>
     /\ quality_checker = [min_response_length |-> DefaultMinResponseLength,
                           quality_threshold |-> DefaultQualityThreshold]) =>
        /\ \E k \in 1..Len(assessment[1].issues) :
              assessment[1].issues[k].issue_type = "uncertainty"
        /\ assessment[1].should_escalate

\* The six issue types.
IssueTypes ==
    {"uncertainty", "incomplete", "failed_reasoning", "refusal", "too_short",
     "repetition"}

\* max(0, 100 - sum of severity * 25) cut to an integer, the sum taken over
\* the issues of an assessment from the last to the first.
RECURSIVE SeveritySum(_, _)
SeveritySum(issues, k) ==
    IF k = 0 THEN Rat(0, 1)
    ELSE RatAdd(SeveritySum(issues, k - 1), issues[k].severity)

ScoreOfIssues(issues) ==
    LET Cut(total) == IF 25 * total[1] >= 100 * total[2] THEN 0
                      ELSE 100 - ((25 * total[1] + total[2] - 1) \div total[2])
    IN  Cut(SeveritySum(issues, Len(issues)))

\* What the score and the issue list of an assessment satisfy when the
\* detectors made it.
ScoredFromIssues(a) ==
    /\ a.quality_score = ScoreOfIssues(a.issues)
    /\ (a.quality_score = 100 <=> a.issues = <<>>)
    /\ a.quality_score \in 0..100
    /\ \A ty \in IssueTypes :
          Cardinality({k \in 1..Len(a.issues) : a.issues[k].issue_type = ty}) <= 1
    /\ Len(a.issues) <= 6

\* C15 as stated: for every response text other than the empty one, the score
\* is max(0, 100 - sum of severity * 25) cut to an integer, is 100 exactly
\* when there is no issue, lies in 0..100, and there is at most one issue per
\* issue type (six at most).
C15_ScoreOfNonEmpty ==
    (/\ checked # <<>>
     /\ checked[1].response_text # "") => ScoredFromIssues(assessment[1])

\* C15, amended: the same for every response text that is neither empty nor
\* whitespace-only (a whitespace-only text takes the empty-response shortcut:
\* score 0 beside one issue of severity 1).
C15_ScoreOfNonBlank ==
    (/\ checked # <<>>
     /\ checked[1].response_text \notin BlankTexts) => ScoredFromIssues(assessment[1])

\* A text on which five detectors fire, the penalties adding up to more than
\* 100: the score is held at 0.
C15_ScoreHeldAtZero ==
    /\ checked # <<>>
    /\ checked[1].response_text = HopelessAnswer
    /\ Len(assessment[1].issues) = 5
    /\ assessment[1].quality_score = 0

(***************************************************************************)
(* Properties of the prompt analyzer, checked under SpecAnalyzer           *)
(***************************************************************************)

\* The ComplexityAnalysis the caller received (only where analyze_returned # <<>>).
Analysis == analyze_returned[1]

\* C16: for every prompt and every set of the five weights the constructor
\* accepts, analyze returns a result instead of raising, and the
\* complexity_score of the result is an integer from 0 to 100.
C16_ScoreInRangeAndReturns ==
    analyzed # <<>> =>
        /\ analyze_raised = <<>>
        /\ analyze_returned # <<>>
        /\ Analysis.complexity_score \in 0..100

\* C17: in every result of analyze, the empty-prompt shortcut included, the
\* level is low exactly when the score is below 30, medium exactly when it is
\* from 30 to 69, and high exactly when it is 70 or more.
C17_LevelIsFunctionOfScore ==
    analyze_returned # <<>> =>
        /\ Analysis.level = "low" <=> Analysis.complexity_score < 30
        /\ Analysis.level = "medium" <=>
              (30 <= Analysis.complexity_score /\ Analysis.complexity_score < 70)
        /\ Analysis.level = "high" <=> Analysis.complexity_score >= 70

\* C17 witness: a prompt of five low-tier keywords scores 30, the lowest score
\* of the medium level.
C17_LowestMediumScore ==
    /\ analyzed = <<LowKeywordsPrompt>>
    /\ analyze_returned # <<>>
    /\ Analysis.complexity_score = 30
    /\ Analysis.level = "medium"

\* The categories whose signal lists _calculate_score aggregates, with the
\* signal type of each.
SignalCategories ==
    [keyword |-> "reasoning_keyword", code |-> "code_block",
     math |-> "math_expression", multipart |-> "multipart_question"]

\* Weights of a signal added to a category's list.
AddedWeights == {Rat(0, 1), Rat(3, 10), Rat(1, 2), Rat(7, 10), Rat(9, 10), Rat(1, 1)}

\* The weights calculate_length_signal gives, from the shortest prompts up.
LengthWeights == {Rat(1, 10), Rat(2, 10), Rat(4, 10), Rat(6, 10), Rat(8, 10), Rat(9, 10)}

\* The score _calculate_score computes with the default category weights.
DefaultScore(found) ==
    analyzer_calculate_score(DefaultAnalyzer, found.keyword, found.code, found.math,
                             found.multipart, found.length)

\* The detected signals with one more signal, of weight w, in category c (its
\* value is none of the values a detector produces, so deduplication keeps it).
WithSignal(found, c, w) ==
    [found EXCEPT ![c] = Append(@, DetectedSignal(SignalCategories[c], "<added>", w, <<>>))]

\* The detected signals with the length signal of a longer prompt.
WithLengthWeight(found, w) == [found EXCEPT !.length.weight = w]

\* No added signal and no longer prompt's length weight takes the score below
\* the given one.
NeverLowered(found, score) ==
    /\ \A c \in DOMAIN SignalCategories : \A w \in AddedWeights :
          DefaultScore(WithSignal(found, c, w)) >= score
    /\ \A w \in LengthWeights :
          RatLess(found.length.weight, w) =>
              DefaultScore(WithLengthWeight(found, w)) >= score

\* The default analyzer has scored a prompt that is not blank.
DefaultAnalyzerScored ==
    /\ analyzed # <<>>
    /\ Strip(analyzed[1]) # ""
    /\ prompt_analyzer = DefaultAnalyzer
    /\ analyze_returned # <<>>

\* C18, amended: at the level of the score computation, with the default
\* category weights, adding one more signal of any weight from 0 to 1 to any
\* category's deduplicated list, or giving the length signal the weight of a
\* longer prompt, never lowers the score analyze computed.
C18_ScoreMonotoneInSignalLists ==
    DefaultAnalyzerScored =>
        NeverLowered(DetectedTable[analyzed[1]], Analysis.complexity_score)

\* C18 witness: the keyword category of a prompt is already at its cap of 1.0,
\* and a further keyword signal of weight 1 leaves the score where it was.
C18_AddedSignalAtTheCap ==
    /\ DefaultAnalyzerScored
    /\ analyzed = <<CompareStepByStepPrompt>>
    /\ DefaultScore(WithSignal(DetectedTable[CompareStepByStepPrompt], "keyword",
                               Rat(1, 1))) = Analysis.complexity_score

\* A detector other than the length signal finds something in the text.
DetectorPositive(text) ==
    LET Found(found) ==
            found.keyword \o found.code \o found.math \o found.multipart # <<>>
    IN  Found(DetectedTable[text])

\* longer is shorter with a detector-positive text of the catalogue inserted
\* somewhere in it.
AddsDetectorPositive(shorter, longer) ==
    \E added \in AnalyzedPrompts :
        /\ added # ""
        /\ DetectorPositive(added)
        /\ \E k \in 0..Len(shorter) :
              longer = SubSeq(shorter, 1, k) \o added
                          \o SubSeq(shorter, k + 1, Len(shorter))

\* C18 as stated, for prompts: when the analyzer, having scored a prompt, scores
\* the same prompt with a detector-positive substring added, the second score
\* is not below the first.
C18_ScoreMonotoneInPrompts ==
    [][(/\ DefaultAnalyzerScored
        /\ DefaultAnalyzerScored'
        /\ AddsDetectorPositive(analyzed[1], analyzed'[1]))
       => analyze_returned'[1].complexity_score >= Analysis.complexity_score]_vars

\* The signals of an analysis other than the length signal.
ContentSignals(a) ==
    SelectSeq(a.detected_signals, LAMBDA sg : sg.signal_type # "length")

\* C19: with the default weights, a prompt under 100 characters whose only
\* signals besides its length are reasoning keywords, "step by step" and at
\* least two more, scores 50 or more; the prompts "Analyze and compare Python
\* with Java step by step" and "Explain step by step how to implement a binary
\* search tree" are such prompts.
C19_StepByStepScoresFifty ==
    (/\ DefaultAnalyzerScored
     /\ Analysis.prompt_length < 100
     /\ Len(ContentSignals(Analysis)) >= 3
     /\ \A k \in 1..Len(ContentSignals(Analysis)) :
           ContentSignals(Analysis)[k].signal_type = "reasoning_keyword"
     /\ \E k \in 1..Len(ContentSignals(Analysis)) :
           ContentSignals(Analysis)[k].value = "step by step")
    => Analysis.complexity_score >= 50

(***************************************************************************)
(* Properties of the metrics service, checked under SpecMetrics            *)
(***************************************************************************)

\* The RequestLog last written (only where request_log # <<>>).
Logged == request_log[1]

\* C20: the estimated cost of every metrics record is prompt tokens times the
\* input rate plus completion tokens times the output rate, per million
\* tokens, with the rates 0.075 and 0.30 exactly when the lower-cased model
\* name contains "flash" and does not contain "thinking", and the rates 1.25
\* and 5.00 otherwise (in billionths of a dollar: 75, 300, 1250, 5000 a token).
C20_CostByFlashNotThinking ==
    request_log # <<>> =>
        Logged.estimated_cost =
            IF /\ Contains(Lower(Logged.final_model), "flash")
               /\ ~Contains(Lower(Logged.final_model), "thinking")
            THEN Logged.prompt_tokens * 75 + Logged.completion_tokens * 300
            ELSE Logged.prompt_tokens * 1250 + Logged.completion_tokens * 5000

(***************************************************************************)
(* Further properties of the routing engine, checked under SpecRouting     *)
(***************************************************************************)

\* C28: whatever the strategy and the analysis, a decision that requires a
\* quality check has the fast tier and the fast model of the settings, and
\* every decision of the AlwaysFast strategy requires a quality check.
C28_QualityCheckOnlyOnFast ==
    /\ (decision # <<>> /\ decision[1].requires_quality_check) =>
          /\ decision[1].tier = FAST
          /\ decision[1].selected_model = settings.fast_model
    /\ (DecidedByStrategy /\ strategy.name = "AlwaysFastStrategy") =>
          decision[1].requires_quality_check

\* C28 witness: AlwaysFast decides on a score at or above the high threshold,
\* where the Threshold strategy would choose the complex model, and still asks
\* for the quality check on the fast model.
C28_AlwaysFastOnAHighScore ==
    /\ DecidedByStrategy
    /\ strategy.name = "AlwaysFastStrategy"
    /\ settings.fast_model # settings.complex_model
    /\ analysis[1].complexity_score >= settings.complexity_threshold_high
    /\ Choice(decision[1]) = <<settings.fast_model, FAST, TRUE>>

(***************************************************************************)
(* Further properties of the escalation handler, checked under Spec        *)
(***************************************************************************)

\* C24: every EscalationStep recorded by handle_with_escalation, in the chain
\* being built and in the chain returned, has a response_preview of at most
\* 200 characters, however long the response is.
C24_PreviewAtMostTwoHundred ==
    /\ \A k \in 1..Len(steps) : Len(steps[k].response_preview) <= 200
    /\ returned # <<>> =>
          \A k \in 1..Len(ReturnedChain.steps) :
             Len(ReturnedChain.steps[k].response_preview) <= 200

\* C26: for every max_escalation_depth in 1..5, every initial model and
\* every answer or error of the back-end, an invocation calls the back-end at
\* most twice; the first call is on the initial model, and a second call is on
\* the complex model and follows a first call on another model, so the models
\* used are [initial] or [initial, complex] and an attempt on the complex
\* model is the last one.
C26_AtMostTwoCalls ==
    /\ Len(generate_calls) <= 2
    /\ generate_calls # <<>> => generate_calls[1] = initial_model
    /\ Len(generate_calls) = 2 =>
          /\ generate_calls[2] = settings.complex_model
          /\ generate_calls[1] # settings.complex_model
    /\ models_used = SubSeq(generate_calls, 1, Len(models_used))
    /\ returned # <<>> =>
          [k \in 1..Len(ReturnedChain.steps) |-> ReturnedChain.steps[k].model_used]
             = generate_calls

\* C26 witness: with depth 5 the second answer, made on the complex model, is
\* poor as well, and the invocation returns after it although three more
\* attempts would be within the depth.
C26_PoorOnComplexEndsTheChain ==
    /\ returned # <<>>
    /\ settings.max_escalation_depth = MaxEscalationDepth
    /\ Len(generate_calls) = 2
    /\ assessments[2].should_escalate
    /\ ReturnedChain.steps[2].model_used = settings.complex_model

\* C27: in every returned chain, for every max_escalation_depth in 1..5,
\* escalation_prevented_loop implies that the quality assessment of the last
\* step asked for escalation and that the model of the last step is not the
\* complex model.
C27_PreventedLoopBelowComplex ==
    (returned # <<>> /\ ReturnedChain.escalation_prevented_loop) =>
        /\ assessments[Len(assessments)].should_escalate
        /\ ReturnedChain.steps[Len(ReturnedChain.steps)].model_used
              # settings.complex_model

\* C23: for every completed chain, combine_responses under the use-latest
\* strategy returns a CombinedResponse whose primary_response is the last
\* response of the chain, equal to chain.final_response whatever its length,
\* with no supporting_context and combination_strategy "use_latest".
C23_UseLatestGivesFinalResponse ==
    combined # <<>> =>
        /\ combined[1].primary_response = ReturnedChain.final_response
        /\ combined[1].primary_response = ReturnedResponse.content
        /\ combined[1].supporting_context = <<>>
        /\ combined[1].combination_strategy = "use_latest"


(***************************************************************************)
(* Order of the detected signals, checked under SpecAnalyzer               *)
(***************************************************************************)

\* C25: within each category of the detected_signals of a returned analysis
\* (the deduplicated output of one detector) the signals appear in
\* non-decreasing order of their match position in the prompt.
C25_SignalsInScanOrder ==
    analyze_returned # <<>> =>
        \A i \in 1..Len(Analysis.detected_signals) :
            \A j \in i..Len(Analysis.detected_signals) :
                LET InOrder(first, second) ==
                        (/\ first.signal_type = second.signal_type
                         /\ first.position # <<>>
                         /\ second.position # <<>>)
                            => first.position[1] <= second.position[1]
                IN  InOrder(Analysis.detected_signals[i], Analysis.detected_signals[j])


(***************************************************************************)
(* The endpoint POST /chat/completions (src/src/api/v1/chat.py) with the   *)
(* session dependency of src/src/db/session.py.  One request at a time is  *)
(* followed from its arrival to the response its client receives; the     *)
(* request is suspended at every awaited back-end call.                    *)
(***************************************************************************)

ChatMessage(role, content) == [role |-> role, content |-> content]

\* ChatCompletionRequest; None is written <<>>, a given string <<string>>.
ChatCompletionRequest(messages, model, force_model, skip_quality_check, include_analysis) ==
    [messages |-> messages, model |-> model, force_model |-> force_model,
     skip_quality_check |-> skip_quality_check, include_analysis |-> include_analysis]

\* next((m.content for m in reversed(messages) if m.role == "user"), "")
RECURSIVE LastUserContent(_, _)
LastUserContent(messages, k) ==
    IF k = 0 THEN ""
    ELSE IF messages[k].role = "user" THEN messages[k].content
    ELSE LastUserContent(messages, k - 1)

\* The truth value of an optional string: None and "" are false.
Truthy(optional) == optional # <<>> /\ optional[1] # ""

\* The if/elif/else that picks model_to_use.
ModelToUse(req, routing_decision) ==
    IF Truthy(req.force_model) THEN req.force_model[1]
    ELSE IF Truthy(req.model) THEN req.model[1]
    ELSE routing_decision.selected_model

HTTPException(status_code, detail) == [status_code |-> status_code, detail |-> detail]

\* The exception classes of src/src/llm/exceptions.py, all of them LLMError.
LLMErrorClasses ==
    {"LLMError", "LLMTimeoutError", "LLMRateLimitError", "LLMContentFilterError",
     "LLMAuthenticationError", "LLMModelNotFoundError", "LLMInvalidRequestError"}

\* The two except clauses around the body of create_chat_completion: an
\* LLMError becomes a 502, every other Exception (an HTTPException raised
\* inside the body is one) becomes a 500 whose detail quotes str(e).
ExceptClauses(exc) ==
    IF exc.type \in LLMErrorClasses
    THEN HTTPException(502, "LLM error: " \o exc.message)
    ELSE HTTPException(500, "Internal error: " \o exc.message)

\* The exception `raise HTTPException(status_code=400, ...)` raises; its str
\* is "<status_code>: <detail>".
NoUserMessage ==
    [type |-> "HTTPException",
     message |-> "400: No user message found in request"]

\* The completion the endpoint returns; routing_info is <<>> unless the
\* request asked for it.
ChatCompletionResponse(model, response, routing_info) ==
    [status_code |-> 200, model |-> model, content |-> response.content,
     finish_reason |-> response.finish_reason, usage |-> response.usage,
     routing_info |-> routing_info]

RoutingInfo(logged_analysis, routing_decision, final_model, was_escalated, quality_score) ==
    [complexity_score |-> logged_analysis.complexity_score,
     complexity_level |-> logged_analysis.level,
     initial_model |-> routing_decision.selected_model,
     final_model |-> final_model, was_escalated |-> was_escalated,
     quality_score |-> quality_score]

\* The user prompts of the requests, one of each complexity level.
EndpointPrompts == {WhatIsPrompt, ExplainStepByStepPrompt, MixedPrompt}

\* PromptAnalyzer().analyze on these prompts.
EndpointAnalyses ==
    [pp \in EndpointPrompts |->
        analyze_detected(DefaultAnalyzer, pp, DetectedTable[pp]).returned[1]]

\* The message lists of the requests: no message, no user message, a user
\* message without content, each prompt as the only message, and a
\* conversation whose last user message is the prompt.
MessageLists ==
    {<<>>,
     <<ChatMessage("system", "Be brief.")>>,
     <<ChatMessage("user", "")>>,
     <<ChatMessage("system", "Be brief."), ChatMessage("user", ""),
       ChatMessage("assistant", "Yes?")>>,
     <<ChatMessage("user", "hi"), ChatMessage("assistant", "Hello."),
       ChatMessage("user", ExplainStepByStepPrompt)>>}
    \cup {<<ChatMessage("user", pp)>> : pp \in EndpointPrompts}

\* The requests the validation of ChatCompletionRequest lets through.
Requests ==
    {ChatCompletionRequest(messages, model, force_model, skip, include) :
        messages \in MessageLists, model \in {<<>>, <<OtherModel>>},
        force_model \in {<<>>, <<DefaultComplexModel>>}, skip \in BOOLEAN,
        include \in BOOLEAN}

\* The texts the back-end answers a request with: a poor and a good one.
EndpointReplies == {EmptyAnswer, GoodAnswer}

\* The QualityAssessment of QualityChecker.check with its escalation_reason
\* (the description of the main issue, which the reason of a non-empty text
\* ends with, is left out).
AssessmentWithReason(response_text, threshold, quality) ==
    [quality_score |-> quality.quality_score,
     should_escalate |-> quality.should_escalate,
     escalation_reason |->
         IF ~quality.should_escalate THEN <<>>
         ELSE IF response_text = "" \/ Strip(response_text) = ""
         THEN <<"Empty response received">>
         ELSE <<"Quality score " \o ToString(quality.quality_score)
                  \o " below threshold (" \o ToString(threshold) \o ")">>]

\* quality_checker.check(text, complexity_score) of the application's
\* checker on every reply to every prompt.
EndpointQualityTable ==
    [tt \in EndpointReplies, pp \in EndpointPrompts |->
        AssessmentWithReason(tt, DefaultQualityThreshold,
            check(tt, EndpointAnalyses[pp].complexity_score, DefaultMinResponseLength,
                  InitQualityThreshold(<<>>, DefaultQualityThreshold)))]

\* The ChatResponse of the back-end as log_request and the endpoint read it.
BackendResponse(content, model, latency) ==
    LoggedResponse(content, model, latency, Usage(12, 40, 52), "stop")

\* The services the application builds over its Settings (dependencies.py).
InitEndpoint ==
    /\ \E depth \in {MinEscalationDepth, DefaultMaxEscalationDepth} :
          settings = Settings(DefaultFastModel, DefaultComplexModel,
                              DefaultComplexityThresholdLow,
                              DefaultComplexityThresholdHigh, DefaultQualityThreshold,
                              depth)
    /\ strategy = ThresholdRoutingStrategy(settings.complexity_threshold_low,
                                           settings.complexity_threshold_high)
    /\ analysis = <<>>
    /\ decision = <<>>
    /\ HandlerIdle
    /\ CheckerIdle
    /\ AnalyzerIdle
    /\ MetricsIdle
    /\ EndpointIdle
    /\ ConcurrentIdle

\* A request that does not enter handle_with_escalation: no invocation of the
\* loop is in progress, and calls lists the back-end calls made so far.
WithoutInvocation(calls) ==
    /\ generate_calls' = calls
    /\ pc' = "idle"
    /\ initial_model' = DefaultFastModel
    /\ complexity_score' = 0
    /\ current_model' = DefaultFastModel
    /\ attempt' = 0
    /\ steps' = <<>>
    /\ responses' = <<>>
    /\ models_used' = <<>>
    /\ total_latency_ms' = 0
    /\ loop_prevented' = FALSE
    /\ final_response' = <<>>
    /\ returned' = <<>>
    /\ raised' = <<>>
    /\ generate_results' = <<>>
    /\ assessments' = <<>>
    /\ backend_error' = <<>>
    /\ combined' = <<>>

\* handle_direct: the one awaited generate call, no locals of the loop.
StartDirect(model) == WithoutInvocation(<<model>>)

\* The end of a request whose body raised exc: the except clauses turn it
\* into the HTTPException the client receives, and get_db_session rolls the
\* session back.
RequestFails(exc) ==
    /\ http_response' = <<ExceptClauses(exc)>>
    /\ endpoint_pc' = "responded"
    /\ db_session' = "rolled_back"
    /\ request_log' = <<>>
    /\ log_error' = <<>>

\* get_db_session after its yield, when the endpoint returned: the commit,
\* which raises on a session whose transaction a failed flush left inactive,
\* and then the rollback and the re-raise of the except clause.
get_db_session_exit(session_state) ==
    IF session_state = "inactive"
    THEN [db_session |-> "rolled_back", raised |-> <<"PendingRollbackError">>]
    ELSE [db_session |-> "committed", raised |-> <<>>]

\* The end of a request whose back-end calls succeeded, from `try: await
\* metrics_service.log_request(...)` on.  log_request adds the row and
\* flushes the session; a flush that raises leaves the transaction of the
\* session inactive, and the except clause of the endpoint swallows the
\* error.  After the endpoint returned, get_db_session commits; commit on an
\* inactive transaction raises, the session is rolled back and the error is
\* raised again, which reaches the client as a 500 when the framework runs
\* the exit code of the dependency before it sends the response, and is too
\* late to change the response otherwise.
RequestCompletes(response, quality, escalation, final_model, was_escalated, quality_score) ==
    LET completion ==
            ChatCompletionResponse(
                final_model, response,
                IF request[1].include_analysis
                THEN <<RoutingInfo(analysis[1], decision[1], final_model, was_escalated,
                                   quality_score)>>
                ELSE <<>>)
        row == RequestLog(LastUserContent(request[1].messages, Len(request[1].messages)),
                          analysis[1], decision[1], response, quality, escalation, <<>>)
    IN  /\ endpoint_pc' = "responded"
        /\ \E flush_raises \in BOOLEAN, exit_code_before_response \in BOOLEAN :
              LET Respond(exit) ==
                      /\ db_session' = exit.db_session
                      /\ http_response' =
                             IF exit.raised # <<>> /\ exit_code_before_response
                             THEN <<HTTPException(500, "Internal Server Error")>>
                             ELSE <<completion>>
              IN  /\ log_error' = IF flush_raises THEN <<"SQLAlchemyError">> ELSE <<>>
                  /\ request_log' = IF flush_raises THEN <<>> ELSE <<row>>
                  /\ Respond(get_db_session_exit(IF flush_raises THEN "inactive"
                                                 ELSE "open"))

\* A request arrives: create_chat_completion runs up to its first awaited
\* back-end call, or to the exception that ends it before any call.
create_chat_completion ==
    /\ endpoint_pc \in {"idle", "responded"}
    /\ \E req \in Requests :
         LET user_prompt == LastUserContent(req.messages, Len(req.messages))
         IN  /\ request' = <<req>>
             /\ IF user_prompt = ""
                THEN /\ RequestFails(NoUserMessage)
                     /\ model_to_use' = <<>>
                     /\ analysis' = <<>>
                     /\ decision' = <<>>
                     /\ WithoutInvocation(<<>>)
                ELSE LET routing_decision ==
                             decide(strategy, EndpointAnalyses[user_prompt],
                                    settings.fast_model, settings.complex_model)
                         Call(model) ==
                             IF /\ routing_decision.requires_quality_check
                                /\ ~req.skip_quality_check
                             THEN /\ StartInvocation(
                                         model,
                                         EndpointAnalyses[user_prompt].complexity_score)
                                  /\ endpoint_pc' = "escalation"
                             ELSE /\ StartDirect(model)
                                  /\ endpoint_pc' = "direct"
                     IN  /\ analysis' = <<EndpointAnalyses[user_prompt]>>
                         /\ decision' = <<routing_decision>>
                         /\ model_to_use' = <<ModelToUse(req, routing_decision)>>
                         /\ Call(ModelToUse(req, routing_decision))
                         /\ db_session' = "open"
                         /\ http_response' = <<>>
                         /\ log_error' = <<>>
                         /\ request_log' = <<>>
    /\ UNCHANGED <<settings, strategy, checker_vars, analyzer_vars, concurrent_vars>>

\* The back-end answers a call of handle_with_escalation: the loop goes on
\* to its next call, or the chain is returned and the request completes.
EscalationReplyArrives ==
    /\ endpoint_pc = "escalation"
    /\ pc = "generate"
    /\ \E content \in EndpointReplies :
          /\ ReplyArrives(content, LatencyStep,
                          EndpointQualityTable[content,
                              LastUserContent(request[1].messages,
                                              Len(request[1].messages))])
          /\ IF pc' = "generate"
             THEN UNCHANGED <<endpoint_pc, http_response, log_error, db_session,
                              request_log>>
             ELSE LET Complete(chain) ==
                          RequestCompletes(
                              BackendResponse(content, current_model, LatencyStep),
                              <<>>, <<chain>>, chain.final_model,
                              chain.total_attempts > 1,
                              IF chain.steps # <<>>
                              THEN <<chain.steps[Len(chain.steps)].quality_score>>
                              ELSE <<>>)
                  IN  Complete(returned'[1].chain)
    /\ UNCHANGED <<settings, initial_model, complexity_score, raised, backend_error,
                   combined, routing_vars, checker_vars, analyzer_vars, request,
                   model_to_use, concurrent_vars>>

\* The back-end answers the call of handle_direct: the reply is assessed for
\* the metrics and the request completes.
DirectReplyArrives ==
    /\ endpoint_pc = "direct"
    /\ \E content \in EndpointReplies :
          LET Complete(quality_assessment) ==
                  RequestCompletes(
                      BackendResponse(content, model_to_use[1], LatencyStep),
                      <<quality_assessment>>, <<>>, model_to_use[1], FALSE,
                      <<quality_assessment.quality_score>>)
          IN  /\ Complete(EndpointQualityTable[content,
                              LastUserContent(request[1].messages,
                                              Len(request[1].messages))])
              /\ generate_results' =
                     <<ChatResponse(content, model_to_use[1], LatencyStep)>>
    /\ UNCHANGED <<settings, pc, initial_model, complexity_score, handler_locals,
                   returned, raised, generate_calls, assessments, backend_error,
                   combined, routing_vars, checker_vars, analyzer_vars, request,
                   model_to_use, concurrent_vars>>

\* The awaited back-end call raises an LLMError: neither handler catches it,
\* and the endpoint answers 502.
BackendCallFails ==
    /\ endpoint_pc \in {"escalation", "direct"}
    /\ \E kind \in {"LLMTimeoutError", "LLMRateLimitError"} :
          /\ backend_error' =
                 <<[type |-> kind, model |-> generate_calls[Len(generate_calls)]]>>
          /\ RequestFails([type |-> kind, message |-> "upstream failure"])
    /\ pc' = IF endpoint_pc = "escalation" THEN "raised" ELSE pc
    /\ raised' =
           IF endpoint_pc = "escalation"
           THEN <<[type |-> backend_error'[1].type, model |-> current_model]>>
           ELSE raised
    /\ UNCHANGED <<settings, initial_model, complexity_score, handler_locals, returned,
                   generate_calls, generate_results, assessments, combined,
                   routing_vars, checker_vars, analyzer_vars, request, model_to_use,
                   concurrent_vars>>

NextEndpoint ==
    \/ create_chat_completion
    \/ EscalationReplyArrives
    \/ DirectReplyArrives
    \/ BackendCallFails

SpecEndpoint == InitEndpoint /\ [][NextEndpoint]_vars


(***************************************************************************)
(* Properties of the endpoint, checked under SpecEndpoint                  *)
(***************************************************************************)

\* The user prompt the endpoint extracts from the request it serves.
UserPrompt == LastUserContent(request[1].messages, Len(request[1].messages))

\* C29: a request whose messages hold no user message with non-empty content
\* is answered with status 400, no back-end call is made for it and no
\* metrics record is written.
C29_NoUserMessageIsA400 ==
    (/\ endpoint_pc = "responded"
     /\ \A k \in 1..Len(request[1].messages) :
           request[1].messages[k].role = "user" => request[1].messages[k].content = "")
        => /\ http_response # <<>>
           /\ http_response[1].status_code = 400
           /\ generate_calls = <<>>
           /\ request_log = <<>>

\* C30: a metrics record the endpoint wrote with was_escalated true has a
\* quality score, and has an escalation reason when the assessment of the
\* first attempt, which triggered the escalation, said should_escalate.
C30_EscalatedRecordCarriesQuality ==
    (/\ endpoint_pc = "responded"
     /\ request_log # <<>>
     /\ request_log[1].was_escalated)
        => /\ request_log[1].quality_score # <<>>
           /\ assessments[1].should_escalate =>
                 request_log[1].escalation_reason # <<>>

\* C21: a request whose back-end calls succeeded and whose log_request raised
\* is answered with status 200 and the completion built from the last reply
\* of the back-end.
C21_SinkFailureNeverFailsTheRequest ==
    (endpoint_pc = "responded" /\ log_error # <<>>)
        => /\ http_response # <<>>
           /\ http_response[1].status_code = 200
           /\ http_response[1].content =
                  generate_results[Len(generate_results)].content


(***************************************************************************)
(* Concurrent invocations of handle_with_escalation on the one handler of  *)
(* the application (src/src/escalation/service.py).  Every invocation is a *)
(* coroutine with its own locals; the event loop switches between them     *)
(* only at `await llm_client.generate`, so the code between two awaits of  *)
(* one invocation is one step.                                             *)
(***************************************************************************)

\* The number of invocations in progress at the same time.
NumTasks == 2

TaskIds == 1..NumTasks

\* The models the concurrent invocations start on.
TaskModels == {DefaultFastModel, DefaultComplexModel}

\* The complexity scores the concurrent invocations are given.
TaskComplexities == {55}

\* The latencies of the back-end replies to concurrent invocations.
TaskLatencies == {0, LatencyStep}

\* The locals of an invocation that has not been started; calls, results and
\* checks list its generate calls, the replies to them and the assessments of
\* the replies, and trace the order of its steps.
IdleTask ==
    [pc |-> "idle", initial_model |-> DefaultFastModel, complexity_score |-> 0,
     attempt |-> 0, current_model |-> DefaultFastModel, steps |-> <<>>,
     total_latency_ms |-> 0, loop_prevented |-> FALSE, final_response |-> <<>>,
     returned |-> <<>>, raised |-> <<>>, calls |-> <<>>, results |-> <<>>,
     checks |-> <<>>, trace |-> <<>>]

\* The list a pass of the loop appends its step to: the local `steps` of
\* another invocation (a list kept on the handler would be one list for all).
StepsOfTheFirstTask(all_tasks, i) == all_tasks[1].steps

\* The list a pass of the loop appends its step to: the local `steps` of the
\* invocation itself.
TaskSteps(all_tasks, i) == all_tasks[i].steps

\* The handler of the application, no invocation started.
InitConcurrent ==
    /\ \E depth \in {MinEscalationDepth, DefaultMaxEscalationDepth} :
          settings = Settings(DefaultFastModel, DefaultComplexModel,
                              DefaultComplexityThresholdLow,
                              DefaultComplexityThresholdHigh, DefaultQualityThreshold,
                              depth)
    /\ tasks = [i \in TaskIds |-> IdleTask]
    /\ HandlerIdle
    /\ RouterIdle
    /\ CheckerIdle
    /\ AnalyzerIdle
    /\ MetricsIdle
    /\ EndpointIdle

\* Task i calls handle_with_escalation and runs up to its first await.
TaskInvokes(i) ==
    /\ tasks[i].pc \in {"idle", "returned", "raised"}
    /\ \E first \in TaskModels, cs \in TaskComplexities :
          tasks' = [tasks EXCEPT ![i] =
                       [IdleTask EXCEPT !.pc = "generate", !.initial_model = first,
                                        !.complexity_score = cs,
                                        !.current_model = first, !.calls = <<first>>,
                                        !.trace = <<"call">>]]

\* The call task i awaits returns: the rest of the pass of the loop runs,
\* and then the next call is awaited or the chain is returned.
TaskReplyArrives(i) ==
    /\ tasks[i].pc = "generate"
    /\ \E content \in EndpointReplies, latency \in TaskLatencies :
         LET Pass(t, quality) ==
                 LET response == ChatResponse(content, t.current_model, latency)
                     max_depth == settings.max_escalation_depth
                     step == EscalationStep(
                                 t.current_model, ResponsePreview(content),
                                 quality.quality_score,
                                 StepEscalated(quality.should_escalate, t.attempt,
                                               t.current_model, max_depth,
                                               settings.complex_model),
                                 latency)
                     exit == LoopExit(quality.should_escalate, t.attempt,
                                      t.current_model, max_depth,
                                      settings.complex_model)
                     next_model == IF exit \in {"escalate", "range_exhausted"}
                                   THEN settings.complex_model
                                   ELSE t.current_model
                     next_prevented ==
                         IF exit = "max_depth" THEN TRUE ELSE t.loop_prevented
                     next_latency == AddLatency(t.total_latency_ms, latency)
                     goes_on == exit = "escalate"
                     appended == Append(TaskSteps(tasks, i), step)
                 IN  [t EXCEPT
                        !.results = Append(t.results, response),
                        !.checks = Append(t.checks, quality),
                        !.total_latency_ms = next_latency,
                        !.final_response = <<response>>,
                        !.steps = appended,
                        !.current_model = next_model,
                        !.loop_prevented = next_prevented,
                        !.attempt = IF goes_on THEN t.attempt + 1 ELSE t.attempt,
                        !.calls = IF goes_on THEN Append(t.calls, next_model)
                                  ELSE t.calls,
                        !.pc = IF goes_on THEN "generate" ELSE "returned",
                        !.returned =
                            IF goes_on THEN <<>>
                            ELSE <<[response |-> response,
                                    chain |-> EscalationChain(appended, next_model,
                                                              <<response>>,
                                                              next_latency,
                                                              next_prevented)]>>,
                        !.trace = t.trace \o <<"return", "check", "append">>
                                    \o (IF goes_on THEN <<"call">> ELSE <<>>)]
         IN  tasks' = [tasks EXCEPT ![i] =
                          Pass(tasks[i],
                               QualityTable[content, tasks[i].complexity_score,
                                            settings.quality_threshold])]

\* The call task i awaits raises: the error leaves the invocation.
TaskCallRaises(i) ==
    /\ tasks[i].pc = "generate"
    /\ tasks' = [tasks EXCEPT ![i].pc = "raised",
                              ![i].raised = <<[type |-> "LLMTimeoutError",
                                               model |-> tasks[i].current_model]>>,
                              ![i].trace = Append(tasks[i].trace, "raise")]

Invocation ==
    /\ \E i \in TaskIds : TaskInvokes(i)
    /\ UNCHANGED <<settings, handler_vars, routing_vars, checker_vars, analyzer_vars,
                   metrics_vars, endpoint_vars>>

ReplyToInvocation ==
    /\ \E i \in TaskIds : TaskReplyArrives(i)
    /\ UNCHANGED <<settings, handler_vars, routing_vars, checker_vars, analyzer_vars,
                   metrics_vars, endpoint_vars>>

ErrorToInvocation ==
    /\ \E i \in TaskIds : TaskCallRaises(i)
    /\ UNCHANGED <<settings, handler_vars, routing_vars, checker_vars, analyzer_vars,
                   metrics_vars, endpoint_vars>>

NextConcurrent ==
    \/ Invocation
    \/ ReplyToInvocation
    \/ ErrorToInvocation

SpecConcurrent == InitConcurrent /\ [][NextConcurrent]_vars

(***************************************************************************)
(* Properties of concurrent invocations, checked under SpecConcurrent      *)
(***************************************************************************)

\* The steps of one attempt, in the order the loop body takes them.
AttemptCycle == <<"call", "return", "check", "append">>

\* C22: in every invocation the attempts are strictly sequential (a call is
\* made only after the previous call returned, its reply was checked and its
\* step was appended, so at most one call is outstanding), and the steps of
\* its chain are, in attempt order, the steps made from its own calls and the
\* replies to them, however the invocations interleave.
C22_AttemptsSequentialAndOwn ==
    \A i \in DOMAIN tasks :
        LET Sequential(t) ==
                /\ Len(t.steps) = Len(t.results)
                /\ Len(t.checks) = Len(t.results)
                /\ t.pc \in {"generate", "raised"} =>
                      /\ Len(t.calls) = Len(t.results) + 1
                      /\ t.attempt = Len(t.results)
                /\ t.pc \in {"idle", "returned"} => Len(t.calls) = Len(t.results)
                /\ \A k \in 1..Len(t.trace) :
                      \/ t.trace[k] = AttemptCycle[((k - 1) % 4) + 1]
                      \/ t.trace[k] = "raise" /\ k = Len(t.trace) /\ (k - 1) % 4 = 1
                /\ \A k \in 1..Len(t.steps) :
                      /\ t.steps[k].model_used = t.calls[k]
                      /\ t.steps[k].response_preview =
                             ResponsePreview(t.results[k].content)
                      /\ t.steps[k].latency_ms = t.results[k].latency_ms
                      /\ t.steps[k].quality_score = t.checks[k].quality_score
                /\ t.returned # <<>> => t.returned[1].chain.steps = t.steps
        IN  Sequential(tasks[i])

\* C22 witness: both invocations are suspended at the call of their second
\* attempt, each with the one step of its own first attempt, and the replies
\* to their first calls differed in latency.
C22_BothAtTheirSecondCall ==
    /\ tasks # <<>>
    /\ \A i \in TaskIds :
          /\ tasks[i].pc = "generate"
          /\ Len(tasks[i].steps) = 1
          /\ Len(tasks[i].calls) = 2
    /\ tasks[1].steps[1].latency_ms # tasks[2].steps[1].latency_ms

====
